---------------------------- MODULE Spec2Model ----------------------------
(***************************************************************************)
(* avemu: a TCP front end that emulates an A/V device's serial control     *)
(* interface.  The model follows src/avemu.py: the module-level registry   *)
(* (_clients, _command_log, _stats) guarded by _state_lock, the device     *)
(* model guarded by _emulator_lock, one Server thread per connection, and  *)
(* the accept loop of run_simple.                                          *)
(*                                                                         *)
(* Text is modelled as it is in Python: bytes are sequences of integers    *)
(* 0..255, str is a sequence of code points.                               *)
(***************************************************************************)
EXTENDS Integers, Sequences, FiniteSets, TLC

(***************************************************************************)
(* Bounds of the model.                                                    *)
(***************************************************************************)
\* connections the accept loop accepts in one run
NumSessions == 2
\* non-empty reads the peers' sends produce in one run, all sessions together
MaxReads == 2
\* exchanges already logged by an earlier, closed connection (SpecRing only)
PreLogged == 99
\* connections the console accepts in one run (SpecTui)
MaxTuiAccepts == 1
\* the longest search query typed (SpecKeys)
MaxQuery == 2
\* how far j moves the command selection while nothing clamps it
MaxCmdIdx == 15
\* exchanges already logged when the console starts (SpecKeys)
KeysLogged == 2
\* exchanges already logged when the console starts (SpecLongLog): one more
\* than the command-log panel has rows
LongLogged == 16
MaxIdLen == 3

(***************************************************************************)
(* Text: code points, literals, upper(), strip(), decode().                *)
(***************************************************************************)
\* the printable ASCII characters, code points 32..126, in order (three are
\* named, not written)
Printable ==
  << " ", "!", "DQUOTE", "#", "$", "%", "&", "'", "(", ")", "*", "+", ",", "-",
     ".", "/", "0", "1", "2", "3", "4", "5", "6", "7", "8", "9", ":", ";",
     "<", "=", ">", "?", "@", "A", "B", "C", "D", "E", "F", "G", "H", "I",
     "J", "K", "L", "M", "N", "O", "P", "Q", "R", "S", "T", "U", "V", "W",
     "X", "Y", "Z", "[", "BACKSLASH", "]", "^", "_", "BACKTICK", "a", "b", "c", "d", "e",
     "f", "g", "h", "i", "j", "k", "l", "m", "n", "o", "p", "q", "r", "s",
     "t", "u", "v", "w", "x", "y", "z", "{", "|", "}", "~" >>

\* code point of a printable character
Ord(ch) == 31 + (CHOOSE i \in 1..Len(Printable) : Printable[i] = ch)

\* a literal: the code points of a sequence of characters
Lit(chars) == [i \in 1..Len(chars) |-> Ord(chars[i])]

\* U+FFFD, what decode(errors='replace') yields for an undecodable byte
ReplacementChar == 65533

\* str.upper() on one code point (ASCII letters; every other code point of
\* the model's alphabet has no upper-case form and is returned unchanged)
UpperChar(c) == IF c >= 97 /\ c <= 122 THEN c - 32 ELSE c

\* str.upper()
Upper(s) == [i \in 1..Len(s) |-> UpperChar(s[i])]

\* str.lower() on the same alphabet (used to enumerate inputs)
Lower(s) == [i \in 1..Len(s) |-> IF s[i] >= 65 /\ s[i] <= 90 THEN s[i] + 32 ELSE s[i]]

\* the code points str.strip() removes among those ascii decoding can yield
Whitespace == {9, 10, 11, 12, 13, 28, 29, 30, 31, 32}

\* str.strip(): drop leading and trailing whitespace
Strip(s) ==
  LET keep == {i \in 1..Len(s) : s[i] \notin Whitespace}
  IN  IF keep = {} THEN << >>
      ELSE LET lo == CHOOSE i \in keep : \A j \in keep : i <= j
               hi == CHOOSE i \in keep : \A j \in keep : j <= i
           IN  SubSeq(s, lo, hi)

\* bytes.decode('ascii', errors='replace'): one code point per byte
Decode(b) == [i \in 1..Len(b) |-> IF b[i] < 128 THEN b[i] ELSE ReplacementChar]

\* s starts with p
StartsWith(s, p) == Len(p) <= Len(s) /\ SubSeq(s, 1, Len(p)) = p

\* p occurs somewhere in s
Contains(s, p) ==
  \E i \in 0..(Len(s) - Len(p)) : SubSeq(s, i + 1, i + Len(p)) = p

(***************************************************************************)
(* ERROR DETECTION                                                         *)
(***************************************************************************)
\* a pattern of ERROR_PATTERNS: a literal, anchored at the start (^) or not
Pat(anchored, chars) == [anchored |-> anchored, lit |-> Lit(chars)]

ERROR_PATTERNS ==
  << Pat(TRUE,  <<"E", "R", "R", "O", "R">>),
     Pat(TRUE,  <<"!", "E", "(">>),
     Pat(FALSE, <<"E", "R", "R">>),
     Pat(FALSE, <<"I", "N", "V", "A", "L", "I", "D">>),
     Pat(FALSE, <<"U", "N", "K", "N", "O", "W", "N">>),
     Pat(TRUE,  <<"N", "A", "K">>) >>

\* re.search(pattern, text) for the patterns above (no MULTILINE flag: ^
\* matches at the start of the text only)
re_search(p, text) ==
  IF p.anchored THEN StartsWith(text, p.lit) ELSE Contains(text, p.lit)

\* the mutant: the response is matched as it is, not upper-cased
is_error_response_NoUpper(response) ==
  IF response = << >> THEN FALSE
  ELSE \E k \in 1..Len(ERROR_PATTERNS) : re_search(ERROR_PATTERNS[k], response)

is_error_response(response) ==
  IF response = << >> THEN FALSE
  ELSE LET response_upper == Upper(response)
       IN  \E k \in 1..Len(ERROR_PATTERNS) :
              re_search(ERROR_PATTERNS[k], response_upper)

(***************************************************************************)
(* The device model (pyavcontrol's EmulatorClient), as the repository's    *)
(* tests describe it: a recognised command is echoed and may change the    *)
(* device state; an unrecognised command is answered with ERROR or with    *)
(* empty bytes, depending on the loaded protocol.                          *)
(***************************************************************************)
\* b'!ON\r'
CmdOn == Lit(<<"!", "O", "N">>) \o <<13>>
\* b'XYZ\xff\r\n': not a command of the protocol, and not ascii
CmdGarbage == Lit(<<"X", "Y", "Z">>) \o <<255, 13, 10>>
\* what a peer sends in one read
Commands == {CmdOn, CmdGarbage}

\* b'ERROR\r'
RespError == Lit(<<"E", "R", "R", "O", "R">>) \o <<13>>

\* what the loaded protocol does with an unrecognised command
Policies == {"error", "ignored"}

\* EmulatorClient.process_command: the response to a command buffer
process_command(buf, policy) ==
  IF buf = CmdOn THEN CmdOn
  ELSE IF policy = "error" THEN RespError ELSE << >>

\* EmulatorClient.process_command: the device state after a command buffer
process_state(buf, dev) ==
  IF buf = CmdOn THEN [dev EXCEPT !.power = TRUE] ELSE dev

(***************************************************************************)
(* THREAD-SAFE STATE and the threads                                       *)
(***************************************************************************)
\* the thread of run_simple, which accepts and constructs the Server objects
Acceptor == 0
\* the Server threads, in the order they are accepted
Sessions == 1..NumSessions
Threads == {Acceptor} \cup Sessions

\* deque(maxlen=100)
LogMaxLen == 100

\* Server._client_id, from the peer address of the connection
client_id(s) == <<"127.0.0.1", s>>

VARIABLES
  clients,        \* _clients: the Server objects, in registration order
  command_log,    \* _command_log
  stats,          \* _stats
  state_lock,     \* _state_lock: the set of threads holding it
  emulator_lock,  \* _emulator_lock: the set of threads holding it
  device,         \* the emulator's device state
  policy,         \* the loaded protocol's answer to unrecognised commands
  in_call,        \* number of threads inside process_command
  pc,             \* where each Server thread is
  data,           \* Server.run: data, the last read
  response,       \* Server.run: response, the engine's last answer
  tmp,            \* per thread: the value read by a += on _stats
  sock_open,      \* per session: the socket is open
  sent,           \* per session: the buffers handed to socket.send, in order
  acc_pc,         \* where the accept loop is
  acc_new,        \* the Server the accept loop is constructing
  reads,          \* per session: non-empty reads so far
  returned,       \* per session: the responses the engine returned, in order
  call_order,     \* the sessions whose calls into the engine began, in order
  appended,       \* per session: entries it appended to the log
  closes,         \* per session: times its socket was closed
  removals,       \* per session: times it was removed from _clients
  exit_why,       \* per session: what ended its loop
  clock,          \* datetime.now(): a clock that advances at every reading
  cls_in,         \* the classifier's input (SpecClassify)
  cls_out,        \* the classifier's result (SpecClassify)
  tui_state,      \* _tui_state: the TUIState of the console
  key,            \* run_with_rich_tui: key, the last key read
  tui_pc,         \* where the console loop is ("off": no console)
  frame,          \* what the render functions have read for the frame
  proc,           \* the process: running, or how it ended
  main_st,        \* main: args and its locals protocol_id and port
  demo            \* run_demo_traffic: the generator thread and what it sent

registry == <<clients, command_log, stats, state_lock>>
gateway == <<emulator_lock, device, policy, in_call>>
locals == <<data, response, tmp>>
sockets == <<sock_open, sent>>
acceptor == <<acc_pc, acc_new>>
history == <<reads, returned, call_order, appended, closes, removals, exit_why,
            clock>>
classifier == <<cls_in, cls_out>>
console == <<tui_state, key, tui_pc, frame>>
startup == <<main_st, demo>>
vars == <<registry, gateway, pc, locals, sockets, acceptor, history, classifier,
          console, proc, startup>>

\* CommandLogEntry(timestamp, client_id, command, response, is_error)
CommandLogEntry(ts, cid, command, resp, is_err) ==
  [timestamp |-> ts, client_id |-> cid, command |-> command,
   response |-> resp, is_error |-> is_err]

\* the mutant: a deque without maxlen
deque_append_Unbounded(q, x, n) == Append(q, x)

\* deque.append on a deque(maxlen=n): a full deque drops its oldest item
deque_append(q, x, n) ==
  IF Len(q) >= n THEN Append(Tail(q), x) ELSE Append(q, x)

\* Server.run: cmd_str, the read as it is logged
cmd_str(s) == Strip(Decode(data[s]))

\* Server.run: response_str, the response as it is logged
response_str(s) == IF response[s] # << >> THEN Strip(Decode(response[s])) ELSE << >>

\* acquiring an RLock: free, or already held by the same thread
CanAcquire(lock, t) == lock \subseteq {t}

(***************************************************************************)
(* TUI STATE                                                               *)
(***************************************************************************)
\* TUIState(): the dataclass defaults
TUIState ==
  [info_panel_visible |-> FALSE, detail_popup_visible |-> FALSE,
   search_active |-> FALSE, search_query |-> << >>, scroll_offset |-> 0,
   selected_log_idx |-> -1, selected_cmd_idx |-> 0]

\* the panels of one frame: each is << >> until its render function has run,
\* then << what the function read and shows >>
NoFrame ==
  [clients |-> << >>, state |-> << >>, commands |-> << >>, footer |-> << >>,
   info |-> << >>, detail |-> << >>]

\* no console: the process runs run_simple
\* main's locals before main is looked at, and no demo traffic (--demo not
\* given)
NoProtocol == [has_ip |-> FALSE, port |-> << >>]
MainOff == [pc |-> "off", model |-> << >>, port_arg |-> << >>,
            protocol |-> NoProtocol, protocol_id |-> << >>,
            port |-> << >>]
DemoOff == [pc |-> "off", up |-> TRUE, i |-> 0, sent |-> << >>]
InitStartupOff ==
  /\ main_st = MainOff
  /\ demo = DemoOff

InitConsoleOff ==
  /\ tui_state = TUIState
  /\ key = << >>
  /\ tui_pc = "off"
  /\ frame = NoFrame
  /\ proc = "running"

(***************************************************************************)
(* The state after the module is loaded and main() has bound the socket.   *)
(***************************************************************************)
InitServer ==
  /\ clients = << >>
  /\ command_log = << >>
  /\ stats = [commands |-> 0, connections |-> 0, errors |-> 0]
  /\ state_lock = {}
  /\ emulator_lock = {}
  /\ device = [power |-> FALSE]
  /\ policy \in Policies
  /\ in_call = 0
  /\ pc = [s \in Sessions |-> "new"]
  /\ data = [s \in Sessions |-> << >>]
  /\ response = [s \in Sessions |-> << >>]
  /\ tmp = [t \in Threads |-> 0]
  /\ sock_open = [s \in Sessions |-> FALSE]
  /\ sent = [s \in Sessions |-> << >>]
  /\ acc_pc = "accept"
  /\ acc_new = 0
  /\ reads = [s \in Sessions |-> 0]
  /\ returned = [s \in Sessions |-> << >>]
  /\ call_order = << >>
  /\ appended = [s \in Sessions |-> 0]
  /\ closes = [s \in Sessions |-> 0]
  /\ removals = [s \in Sessions |-> 0]
  /\ exit_why = [s \in Sessions |-> "none"]
  /\ clock = 0

Init ==
  /\ InitServer
  /\ InitConsoleOff
  /\ InitStartupOff
  /\ cls_in = << >>
  /\ cls_out = << >>

(***************************************************************************)
(* run_simple: accept, construct the Server (which registers itself),      *)
(* start its thread.                                                       *)
(***************************************************************************)
\* sock, address = server_socket.accept()
Accept ==
  /\ acc_pc = "accept"
  /\ acc_new < NumSessions
  /\ acc_new' = acc_new + 1
  /\ sock_open' = [sock_open EXCEPT ![acc_new + 1] = TRUE]
  /\ pc' = [pc EXCEPT ![acc_new + 1] = "init"]
  /\ acc_pc' = "reg_lock"
  /\ UNCHANGED <<registry, gateway, locals, sent, history, classifier, console, proc,
                 startup>>

\* the mutant: the Server is appended a second time
RegisterLock_Twice ==
  /\ acc_pc = "reg_lock"
  /\ CanAcquire(state_lock, Acceptor)
  /\ state_lock' = {Acceptor}
  /\ clients' = Append(Append(clients, acc_new), acc_new)
  /\ acc_pc' = "reg_read"
  /\ UNCHANGED <<command_log, stats, gateway, pc, locals, sockets, acc_new,
                 history, classifier, console, proc,
                 startup>>

\* _register_client: with _state_lock: _clients.append(self)
RegisterLock ==
  /\ acc_pc = "reg_lock"
  /\ CanAcquire(state_lock, Acceptor)
  /\ state_lock' = {Acceptor}
  /\ clients' = Append(clients, acc_new)
  /\ acc_pc' = "reg_read"
  /\ UNCHANGED <<command_log, stats, gateway, pc, locals, sockets, acc_new,
                 history, classifier, console, proc,
                 startup>>

\* _register_client: _stats['connections'] += 1, the read
RegisterRead ==
  /\ acc_pc = "reg_read"
  /\ tmp' = [tmp EXCEPT ![Acceptor] = stats.connections]
  /\ acc_pc' = "reg_write"
  /\ UNCHANGED <<registry, gateway, pc, data, response, sockets, acc_new,
                 history, classifier, console, proc,
                 startup>>

\* _register_client: _stats['connections'] += 1, the write
RegisterWrite ==
  /\ acc_pc = "reg_write"
  /\ stats' = [stats EXCEPT !.connections = tmp[Acceptor] + 1]
  /\ acc_pc' = "reg_unlock"
  /\ UNCHANGED <<clients, command_log, state_lock, gateway, pc, locals,
                 sockets, acc_new, history, classifier, console, proc,
                 startup>>

\* _register_client: leaving the with block
RegisterUnlock ==
  /\ acc_pc = "reg_unlock"
  /\ state_lock' = state_lock \ {Acceptor}
  /\ acc_pc' = "start"
  /\ UNCHANGED <<clients, command_log, stats, gateway, pc, locals, sockets,
                 acc_new, history, classifier, console, proc,
                 startup>>

\* Server(...).start(); the thread sets its idle timeout and enters the loop
Start ==
  /\ acc_pc = "start"
  /\ pc' = [pc EXCEPT ![acc_new] = "recv"]
  /\ acc_pc' = "accept"
  /\ UNCHANGED <<registry, gateway, locals, sockets, acc_new, history,
                 classifier, console, proc,
                 startup>>

(***************************************************************************)
(* Server.run, one step at a time.                                         *)
(***************************************************************************)
\* what recv can raise, and what send can raise
RecvErrors == {"timeout", "reset", "error"}
SendErrors == {"pipe", "reset", "timeout", "error"}

\* the except clause that handles an exception of the loop
ExceptClause(e) ==
  CASE e = "timeout" -> "socket.timeout"
    [] e = "reset"   -> "ConnectionResetError"
    [] e = "pipe"    -> "BrokenPipeError"
    [] OTHER         -> "Exception"

\* leaving the loop: the except clause logs, then finally closes the socket
\* (whatever close raises is dropped) and goes on to _deregister_client
Finally(s, why) ==
  /\ exit_why' = [exit_why EXCEPT ![s] = why]
  /\ sock_open' = [sock_open EXCEPT ![s] = FALSE]
  /\ closes' = [closes EXCEPT ![s] = @ + 1]
  /\ pc' = [pc EXCEPT ![s] = "dereg_lock"]

\* the sum of a per-session counter
RECURSIVE SumUpTo(_, _)
SumUpTo(f, n) == IF n = 0 THEN 0 ELSE f[n] + SumUpTo(f, n - 1)
Total(f) == SumUpTo(f, NumSessions)

\* data = self._socket.recv(1024), a non-empty read
Recv(s) ==
  /\ pc[s] = "recv"
  /\ Total(reads) < MaxReads
  /\ \E buf \in Commands : data' = [data EXCEPT ![s] = buf]
  /\ reads' = [reads EXCEPT ![s] = @ + 1]
  /\ pc' = [pc EXCEPT ![s] = "emu_lock"]
  /\ UNCHANGED <<registry, gateway, response, tmp, sockets, acceptor,
                 returned, appended, closes, removals, exit_why, clock,
                 classifier, console, proc,
                 startup,
                 call_order>>

\* the mutant: the loop does not break on an empty read
RecvEof_NoBreak(s) ==
  /\ pc[s] = "recv"
  /\ data' = [data EXCEPT ![s] = << >>]
  /\ pc' = [pc EXCEPT ![s] = "emu_lock"]
  /\ UNCHANGED <<registry, gateway, response, tmp, sockets, acceptor,
                 history, classifier, console, proc, startup>>

\* data = self._socket.recv(1024), the peer has closed: break
RecvEof(s) ==
  /\ pc[s] = "recv"
  /\ data' = [data EXCEPT ![s] = << >>]
  /\ Finally(s, "eof")
  /\ UNCHANGED <<registry, gateway, response, tmp, sent, acceptor, reads,
                 returned, appended, removals, clock, classifier, console, proc,
                 startup,
                 call_order>>

\* the mutant: an exception of recv ends the thread without the finally block
RecvRaises_NoFinally(s) ==
  /\ pc[s] = "recv"
  /\ pc' = [pc EXCEPT ![s] = "done"]
  /\ UNCHANGED <<registry, gateway, locals, sockets, acceptor, history,
                 classifier, console, proc,
                 startup>>

\* recv raises
RecvRaises(s) ==
  /\ pc[s] = "recv"
  /\ \E e \in RecvErrors : Finally(s, ExceptClause(e))
  /\ UNCHANGED <<registry, gateway, locals, sent, acceptor, reads, returned,
                 appended, removals, clock, classifier, console, proc,
                 startup,
                 call_order>>

\* the mutant: the call is made with _state_lock taken as well
EmulatorLock_Nested(s) ==
  /\ pc[s] = "emu_lock"
  /\ CanAcquire(emulator_lock, s)
  /\ CanAcquire(state_lock, s)
  /\ emulator_lock' = {s}
  /\ state_lock' = {s}
  /\ in_call' = in_call + 1
  /\ call_order' = Append(call_order, s)
  /\ pc' = [pc EXCEPT ![s] = "emu_inside"]
  /\ UNCHANGED <<clients, command_log, stats, device, policy, locals, sockets,
                 acceptor, reads, returned, appended, closes, removals, exit_why,
                 clock, classifier, console, proc, startup>>

\* the mutant: the with block does not wait for the lock
EmulatorLock_NoWait(s) ==
  /\ pc[s] = "emu_lock"
  /\ emulator_lock' = emulator_lock \cup {s}
  /\ in_call' = in_call + 1
  /\ call_order' = Append(call_order, s)
  /\ pc' = [pc EXCEPT ![s] = "emu_inside"]
  /\ UNCHANGED <<registry, device, policy, locals, sockets, acceptor, reads,
                 returned, appended, closes, removals, exit_why, clock,
                 classifier, console, proc, startup>>

\* with _emulator_lock: self._emulator.process_command(data), the call begins
EmulatorLock(s) ==
  /\ pc[s] = "emu_lock"
  /\ CanAcquire(emulator_lock, s)
  /\ emulator_lock' = {s}
  /\ in_call' = in_call + 1
  /\ call_order' = Append(call_order, s)
  /\ pc' = [pc EXCEPT ![s] = "emu_inside"]
  /\ UNCHANGED <<registry, device, policy, locals, sockets, acceptor, reads,
                 returned, appended, closes, removals, exit_why, clock,
                 classifier, console, proc, startup>>

\* the mutant: the lock is still held when the call has returned
ProcessReturn_KeepLock(s) ==
  /\ pc[s] = "emu_inside"
  /\ in_call' = in_call - 1
  /\ device' = process_state(data[s], device)
  /\ response' = [response EXCEPT ![s] = process_command(data[s], policy)]
  /\ returned' = [returned EXCEPT ![s] = Append(@, process_command(data[s], policy))]
  /\ pc' = [pc EXCEPT ![s] = "log_lock"]
  /\ UNCHANGED <<registry, emulator_lock, policy, data, tmp, sockets,
                 acceptor, reads, appended, closes, removals, exit_why, clock,
                 classifier, console, proc,
                 startup,
                 call_order>>

\* the mutant: the reply is written first, before anything is logged
ProcessReturn_ReplyFirst(s) ==
  /\ pc[s] = "emu_inside"
  /\ in_call' = in_call - 1
  /\ device' = process_state(data[s], device)
  /\ response' = [response EXCEPT ![s] = process_command(data[s], policy)]
  /\ returned' = [returned EXCEPT ![s] = Append(@, process_command(data[s], policy))]
  /\ emulator_lock' = emulator_lock \ {s}
  /\ pc' = [pc EXCEPT ![s] = IF process_command(data[s], policy) # << >>
                             THEN "send" ELSE "log_lock"]
  /\ UNCHANGED <<registry, policy, data, tmp, sockets, acceptor, reads,
                 appended, closes, removals, exit_why, clock, classifier,
                 console, proc, startup,
                 call_order>>

\* process_command returns its response; the with block releases the lock
ProcessReturn(s) ==
  /\ pc[s] = "emu_inside"
  /\ in_call' = in_call - 1
  /\ device' = process_state(data[s], device)
  /\ response' = [response EXCEPT ![s] = process_command(data[s], policy)]
  /\ returned' = [returned EXCEPT ![s] = Append(@, process_command(data[s], policy))]
  /\ emulator_lock' = emulator_lock \ {s}
  /\ pc' = [pc EXCEPT ![s] = "log_lock"]
  /\ UNCHANGED <<registry, policy, data, tmp, sockets, acceptor, reads,
                 appended, closes, removals, exit_why, clock, classifier, console, proc,
                 startup,
                 call_order>>

\* the mutant: an exception of the engine leaves the lock held
ProcessRaises_KeepLock(s) ==
  /\ pc[s] = "emu_inside"
  /\ in_call' = in_call - 1
  /\ Finally(s, "engine")
  /\ UNCHANGED <<registry, emulator_lock, device, policy, locals, sent,
                 acceptor, reads, returned, appended, removals, clock,
                 classifier, console, proc,
                 startup,
                 call_order>>

\* the mutant: the exception is caught inside the loop and the command logged
ProcessRaises_Logged(s) ==
  /\ pc[s] = "emu_inside"
  /\ in_call' = in_call - 1
  /\ emulator_lock' = emulator_lock \ {s}
  /\ exit_why' = [exit_why EXCEPT ![s] = "engine"]
  /\ pc' = [pc EXCEPT ![s] = "log_lock"]
  /\ UNCHANGED <<registry, device, policy, locals, sockets, acceptor, reads,
                 returned, appended, closes, removals, clock, classifier,
                 console, proc, startup, call_order>>

\* process_command raises: the with block releases the lock on the way out
ProcessRaises(s) ==
  /\ pc[s] = "emu_inside"
  /\ in_call' = in_call - 1
  /\ emulator_lock' = emulator_lock \ {s}
  /\ Finally(s, "engine")
  /\ UNCHANGED <<registry, device, policy, locals, sent, acceptor, reads,
                 returned, appended, removals, clock, classifier, console, proc,
                 startup,
                 call_order>>

(***************************************************************************)
(* Server._log_command                                                     *)
(***************************************************************************)
\* the mutant: _log_command without the with _state_lock block
LogLock_NoLock(s) ==
  /\ pc[s] = "log_lock"
  /\ LET is_err == is_error_response(response_str(s))
         entry == CommandLogEntry(clock + 1, client_id(s), cmd_str(s),
                                  response_str(s), is_err)
     IN  command_log' = deque_append(command_log, entry, LogMaxLen)
  /\ clock' = clock + 1
  /\ appended' = [appended EXCEPT ![s] = @ + 1]
  /\ pc' = [pc EXCEPT ![s] = "log_read_commands"]
  /\ UNCHANGED <<clients, stats, state_lock, gateway, locals, sockets,
                 acceptor, reads, returned, closes, removals, exit_why,
                 classifier, console, proc,
                 startup,
                 call_order>>

\* with _state_lock: is_err = is_error_response(response);
\* entry = CommandLogEntry(...); _command_log.append(entry)
LogLock(s) ==
  /\ pc[s] = "log_lock"
  /\ CanAcquire(state_lock, s)
  /\ state_lock' = {s}
  /\ LET is_err == is_error_response(response_str(s))
         entry == CommandLogEntry(clock + 1, client_id(s), cmd_str(s),
                                  response_str(s), is_err)
     IN  command_log' = deque_append(command_log, entry, LogMaxLen)
  /\ clock' = clock + 1
  /\ appended' = [appended EXCEPT ![s] = @ + 1]
  /\ pc' = [pc EXCEPT ![s] = "log_read_commands"]
  /\ UNCHANGED <<clients, stats, gateway, locals, sockets, acceptor, reads,
                 returned, closes, removals, exit_why, classifier, console, proc,
                 startup,
                 call_order>>

\* the mutant: the counter is updated after the with block has been left
LogReadCommands_Unlocked(s) ==
  /\ pc[s] = "log_read_commands"
  /\ state_lock' = state_lock \ {s}
  /\ tmp' = [tmp EXCEPT ![s] = stats.commands]
  /\ pc' = [pc EXCEPT ![s] = "log_write_commands"]
  /\ UNCHANGED <<clients, command_log, stats, gateway, data, response, sockets,
                 acceptor, history, classifier, console, proc, startup>>

\* _stats['commands'] += 1, the read
LogReadCommands(s) ==
  /\ pc[s] = "log_read_commands"
  /\ tmp' = [tmp EXCEPT ![s] = stats.commands]
  /\ pc' = [pc EXCEPT ![s] = "log_write_commands"]
  /\ UNCHANGED <<registry, gateway, data, response, sockets, acceptor,
                 history, classifier, console, proc,
                 startup>>

\* the mutant: the error counter is never incremented
LogWriteCommands_SkipErrors(s) ==
  /\ pc[s] = "log_write_commands"
  /\ stats' = [stats EXCEPT !.commands = tmp[s] + 1]
  /\ pc' = [pc EXCEPT ![s] = "log_unlock"]
  /\ UNCHANGED <<clients, command_log, state_lock, gateway, locals, sockets,
                 acceptor, history, classifier, console, proc,
                 startup>>

\* _stats['commands'] += 1, the write; then if is_err
LogWriteCommands(s) ==
  /\ pc[s] = "log_write_commands"
  /\ stats' = [stats EXCEPT !.commands = tmp[s] + 1]
  /\ pc' = [pc EXCEPT ![s] = IF is_error_response(response_str(s))
                             THEN "log_read_errors" ELSE "log_unlock"]
  /\ UNCHANGED <<clients, command_log, state_lock, gateway, locals, sockets,
                 acceptor, history, classifier, console, proc,
                 startup>>

\* _stats['errors'] += 1, the read
LogReadErrors(s) ==
  /\ pc[s] = "log_read_errors"
  /\ tmp' = [tmp EXCEPT ![s] = stats.errors]
  /\ pc' = [pc EXCEPT ![s] = "log_write_errors"]
  /\ UNCHANGED <<registry, gateway, data, response, sockets, acceptor,
                 history, classifier, console, proc,
                 startup>>

\* _stats['errors'] += 1, the write
LogWriteErrors(s) ==
  /\ pc[s] = "log_write_errors"
  /\ stats' = [stats EXCEPT !.errors = tmp[s] + 1]
  /\ pc' = [pc EXCEPT ![s] = "log_unlock"]
  /\ UNCHANGED <<clients, command_log, state_lock, gateway, locals, sockets,
                 acceptor, history, classifier, console, proc,
                 startup>>

\* the mutant: the loop reads again without writing the response
LogUnlock_NoReply(s) ==
  /\ pc[s] = "log_unlock"
  /\ state_lock' = state_lock \ {s}
  /\ pc' = [pc EXCEPT ![s] = "recv"]
  /\ UNCHANGED <<clients, command_log, stats, gateway, locals, sockets,
                 acceptor, history, classifier, console, proc,
                 startup>>

\* with _state_lock: leaving; then if response
LogUnlock(s) ==
  /\ pc[s] = "log_unlock"
  /\ state_lock' = state_lock \ {s}
  /\ pc' = [pc EXCEPT ![s] = IF response[s] # << >> THEN "send" ELSE "recv"]
  /\ UNCHANGED <<clients, command_log, stats, gateway, locals, sockets,
                 acceptor, history, classifier, console, proc,
                 startup>>

(***************************************************************************)
(* Server.run: the reply, and _deregister_client from the finally block.   *)
(***************************************************************************)
\* the mutant: the reply is the logged text, not the engine's bytes
Send_Logged(s) ==
  /\ pc[s] = "send"
  /\ sent' = [sent EXCEPT ![s] = Append(@, response_str(s))]
  /\ pc' = [pc EXCEPT ![s] = "recv"]
  /\ UNCHANGED <<registry, gateway, locals, sock_open, acceptor, history,
                 classifier, console, proc,
                 startup>>

\* self._socket.send(response)
Send(s) ==
  /\ pc[s] = "send"
  /\ sent' = [sent EXCEPT ![s] = Append(@, response[s])]
  /\ pc' = [pc EXCEPT ![s] = "recv"]
  /\ UNCHANGED <<registry, gateway, locals, sock_open, acceptor, history,
                 classifier, console, proc,
                 startup>>

\* send raises
SendRaises(s) ==
  /\ pc[s] = "send"
  /\ \E e \in SendErrors : Finally(s, ExceptClause(e))
  /\ UNCHANGED <<registry, gateway, locals, sent, acceptor, reads, returned,
                 appended, removals, clock, classifier, console, proc,
                 startup,
                 call_order>>

\* list.remove(x): drop the first item equal to x
list_remove(l, x) ==
  LET i == CHOOSE k \in 1..Len(l) : l[k] = x /\ \A j \in 1..(k - 1) : l[j] # x
  IN  SubSeq(l, 1, i - 1) \o SubSeq(l, i + 1, Len(l))

\* the mutant: the oldest entry is removed, whichever session it belongs to
DeregisterLock_RemovesOldest(s) ==
  /\ pc[s] = "dereg_lock"
  /\ CanAcquire(state_lock, s)
  /\ state_lock' = {s}
  /\ IF \E k \in 1..Len(clients) : clients[k] = s
     THEN /\ clients' = Tail(clients)
          /\ removals' = [removals EXCEPT ![s] = @ + 1]
     ELSE UNCHANGED <<clients, removals,
                 call_order>>
  /\ pc' = [pc EXCEPT ![s] = "dereg_unlock"]
  /\ UNCHANGED <<command_log, stats, gateway, locals, sockets, acceptor,
                 reads, returned, appended, closes, exit_why, clock,
                 classifier, console, proc, startup,
                 call_order>>

\* the mutant: deregistering counts the connection down again
DeregisterLock_CountsDown(s) ==
  /\ pc[s] = "dereg_lock"
  /\ CanAcquire(state_lock, s)
  /\ state_lock' = {s}
  /\ IF \E k \in 1..Len(clients) : clients[k] = s
     THEN /\ clients' = list_remove(clients, s)
          /\ removals' = [removals EXCEPT ![s] = @ + 1]
          /\ stats' = [stats EXCEPT !.connections = @ - 1]
     ELSE UNCHANGED <<clients, removals, stats,
                 call_order>>
  /\ pc' = [pc EXCEPT ![s] = "dereg_unlock"]
  /\ UNCHANGED <<command_log, gateway, locals, sockets, acceptor, reads,
                 returned, appended, closes, exit_why, clock, classifier, console, proc,
                 startup,
                 call_order>>

\* _deregister_client: with _state_lock: if self in _clients:
\* _clients.remove(self)
DeregisterLock(s) ==
  /\ pc[s] = "dereg_lock"
  /\ CanAcquire(state_lock, s)
  /\ state_lock' = {s}
  /\ IF \E k \in 1..Len(clients) : clients[k] = s
     THEN /\ clients' = list_remove(clients, s)
          /\ removals' = [removals EXCEPT ![s] = @ + 1]
     ELSE UNCHANGED <<clients, removals,
                 call_order>>
  /\ pc' = [pc EXCEPT ![s] = "dereg_unlock"]
  /\ UNCHANGED <<command_log, stats, gateway, locals, sockets, acceptor,
                 reads, returned, appended, closes, exit_why, clock,
                 classifier, console, proc,
                 startup,
                 call_order>>

\* _deregister_client: leaving the with block; run returns and the thread
\* ends, its local variables with it
DeregisterUnlock(s) ==
  /\ pc[s] = "dereg_unlock"
  /\ state_lock' = state_lock \ {s}
  /\ pc' = [pc EXCEPT ![s] = "done"]
  /\ data' = [data EXCEPT ![s] = << >>]
  /\ response' = [response EXCEPT ![s] = << >>]
  /\ tmp' = [tmp EXCEPT ![s] = 0]
  /\ exit_why' = [exit_why EXCEPT ![s] = "none"]
  /\ UNCHANGED <<clients, command_log, stats, gateway, sockets, acceptor,
                 reads, returned, appended, closes, removals, clock,
                 classifier, console, proc,
                 startup,
                 call_order>>

(***************************************************************************)
(* The server: the accept loop and every Server thread.                    *)
(***************************************************************************)
Next ==
  \/ Accept
  \/ RegisterLock
  \/ RegisterRead
  \/ RegisterWrite
  \/ RegisterUnlock
  \/ Start
  \/ \E s \in Sessions : Recv(s)
  \/ \E s \in Sessions : RecvEof(s)
  \/ \E s \in Sessions : RecvRaises(s)
  \/ \E s \in Sessions : EmulatorLock(s)
  \/ \E s \in Sessions : ProcessReturn(s)
  \/ \E s \in Sessions : ProcessRaises(s)
  \/ \E s \in Sessions : LogLock(s)
  \/ \E s \in Sessions : LogReadCommands(s)
  \/ \E s \in Sessions : LogWriteCommands(s)
  \/ \E s \in Sessions : LogReadErrors(s)
  \/ \E s \in Sessions : LogWriteErrors(s)
  \/ \E s \in Sessions : LogUnlock(s)
  \/ \E s \in Sessions : Send(s)
  \/ \E s \in Sessions : SendRaises(s)
  \/ \E s \in Sessions : DeregisterLock(s)
  \/ \E s \in Sessions : DeregisterUnlock(s)

Spec == Init /\ [][Next]_vars

\* what a Server thread does by itself once it has read something: every
\* step of run but the reads, which wait for the peer
RunOn(s) ==
  \/ EmulatorLock(s)
  \/ ProcessReturn(s)
  \/ ProcessRaises(s)
  \/ LogLock(s)
  \/ LogReadCommands(s)
  \/ LogWriteCommands(s)
  \/ LogReadErrors(s)
  \/ LogWriteErrors(s)
  \/ LogUnlock(s)
  \/ Send(s)
  \/ SendRaises(s)
  \/ DeregisterLock(s)
  \/ DeregisterUnlock(s)

\* what the accept loop does by itself once accept has returned
ConstructOn ==
  \/ RegisterLock
  \/ RegisterRead
  \/ RegisterWrite
  \/ RegisterUnlock
  \/ Start

\* the server with its threads scheduled: a thread that can go on does
SpecLive ==
  /\ Spec
  /\ WF_vars(ConstructOn)
  /\ \A s \in Sessions : WF_vars(RunOn(s))

(***************************************************************************)
(* The server after an earlier connection made PreLogged exchanges and     *)
(* closed: the log is about to reach its capacity.                         *)
(***************************************************************************)
\* the entry the earlier connection logged at its i-th exchange
EarlierEntry(i, pol) ==
  LET buf  == IF i % 2 = 1 THEN CmdOn ELSE CmdGarbage
      resp == process_command(buf, pol)
      rstr == IF resp # << >> THEN Strip(Decode(resp)) ELSE << >>
  IN  CommandLogEntry(i, client_id(0), Strip(Decode(buf)), rstr,
                      is_error_response(rstr))

InitRing ==
  /\ policy \in Policies
  /\ command_log = [i \in 1..PreLogged |-> EarlierEntry(i, policy)]
  /\ stats = [commands |-> PreLogged, connections |-> 1,
              errors |-> Cardinality({i \in 1..PreLogged : command_log[i].is_error})]
  /\ clock = PreLogged
  /\ device = [power |-> PreLogged > 0]
  /\ clients = << >>
  /\ state_lock = {}
  /\ emulator_lock = {}
  /\ in_call = 0
  /\ pc = [s \in Sessions |-> "new"]
  /\ data = [s \in Sessions |-> << >>]
  /\ response = [s \in Sessions |-> << >>]
  /\ tmp = [t \in Threads |-> 0]
  /\ sock_open = [s \in Sessions |-> FALSE]
  /\ sent = [s \in Sessions |-> << >>]
  /\ acc_pc = "accept"
  /\ acc_new = 0
  /\ reads = [s \in Sessions |-> 0]
  /\ returned = [s \in Sessions |-> << >>]
  /\ call_order = << >>
  /\ appended = [s \in Sessions |-> 0]
  /\ closes = [s \in Sessions |-> 0]
  /\ removals = [s \in Sessions |-> 0]
  /\ exit_why = [s \in Sessions |-> "none"]
  /\ InitConsoleOff
  /\ InitStartupOff
  /\ cls_in = << >>
  /\ cls_out = << >>

SpecRing == InitRing /\ [][Next]_vars

(***************************************************************************)
(* is_error_response on its own: every input of a bounded set.             *)
(***************************************************************************)
\* what a response can be made of: the patterns, near misses, plain replies
ClassifyTokens ==
  { Lit(<<"E", "R", "R", "O", "R">>), Lit(<<"E", "R", "R">>),
    Lit(<<"E", "R">>), Lit(<<"!", "E", "(">>), Lit(<<"!", "E">>),
    Lit(<<"I", "N", "V", "A", "L", "I", "D">>),
    Lit(<<"I", "N", "V", "A", "L", "D">>),
    Lit(<<"U", "N", "K", "N", "O", "W", "N">>),
    Lit(<<"U", "N", "K", "N", "O", "W">>),
    Lit(<<"N", "A", "K">>), Lit(<<"N", "A">>),
    Lit(<<"!", "S", "T", "A", "T", "E", "(", "O", "F", "F", ")">>),
    Lit(<<"!", "O", "N">>), << >> }
ClassifyPrefixes == { << >>, Lit(<<"X">>), Lit(<<" ">>), <<10>>, <<65533>> }
ClassifySuffixes == { << >>, Lit(<<"R">>), Lit(<<"(", "1", ")">>), <<13>> }

ClassifyInputs ==
  LET upper == { p \o t \o x : p \in ClassifyPrefixes, t \in ClassifyTokens,
                               x \in ClassifySuffixes }
  IN  upper \cup { Lower(r) : r \in upper }

InitClassify ==
  /\ InitServer
  /\ InitConsoleOff
  /\ InitStartupOff
  /\ cls_in \in ClassifyInputs
  /\ cls_out = << >>

\* one call of is_error_response
Classify ==
  /\ cls_out = << >>
  /\ cls_out' = << is_error_response(cls_in) >>
  /\ UNCHANGED <<registry, gateway, pc, locals, sockets, acceptor, history,
                 cls_in, console, proc,
                 startup>>

NextClassify == Classify

SpecClassify == InitClassify /\ [][NextClassify]_vars

(***************************************************************************)
(* KEYBOARD INPUT: what get_key_nonblocking returns (a str of the bytes    *)
(* read, at most 3; None and the empty str are both << >>), handle_key     *)
(* and handle_navigation as functions of the TUIState.                     *)
(***************************************************************************)
KeyNone == << >>
KeyCtrlC == <<3>>
KeyEsc == <<27>>
KeyUp == <<27, 91, 65>>
KeyDown == <<27, 91, 66>>
\* another escape sequence: the right arrow
KeyRight == <<27, 91, 67>>
KeyEnter == <<13>>
KeyBackspace == <<127>>
\* a single character that is not printable and has no binding
KeyTab == <<9>>
\* the key of a printable character
KeyChar(ch) == Lit(<<ch>>)

\* str.isprintable() on one code point of the keyboard's ascii range
isprintable(c) == c >= 32 /\ c <= 126

Max(a, b) == IF a >= b THEN a ELSE b
Min(a, b) == IF a <= b THEN a ELSE b

\* the mutant: up stops one row too late
handle_navigation_OffByOne(st, direction, max_idx) ==
  IF st.info_panel_visible
  THEN IF direction = "up"
       THEN LET idx == Max(0, st.selected_cmd_idx - 1)
            IN  [st EXCEPT !.selected_cmd_idx = idx,
                           !.scroll_offset = IF idx < @ THEN idx ELSE @]
       ELSE [st EXCEPT !.selected_cmd_idx = @ + 1]
  ELSE IF direction = "up"
       THEN IF st.selected_log_idx <= max_idx
            THEN [st EXCEPT !.selected_log_idx = @ + 1]
            ELSE st
       ELSE [st EXCEPT !.selected_log_idx = Max(-1, @ - 1)]

\* handle_navigation; max_idx is len(_command_log) - 1, read under
\* _state_lock when the info panel is not visible
handle_navigation(st, direction, max_idx) ==
  IF st.info_panel_visible
  THEN IF direction = "up"
       THEN LET idx == Max(0, st.selected_cmd_idx - 1)
            IN  [st EXCEPT !.selected_cmd_idx = idx,
                           !.scroll_offset = IF idx < @ THEN idx ELSE @]
       ELSE [st EXCEPT !.selected_cmd_idx = @ + 1]
  ELSE IF direction = "up"
       THEN IF st.selected_log_idx < max_idx
            THEN [st EXCEPT !.selected_log_idx = @ + 1]
            ELSE st
       ELSE [st EXCEPT !.selected_log_idx = Max(-1, @ - 1)]

\* the mutant: escape closes the popup and cancels the search at once
handle_escape_All(st) ==
  IF st.detail_popup_visible \/ st.search_active
  THEN [st EXCEPT !.detail_popup_visible = FALSE, !.search_active = FALSE,
                  !.search_query = << >>]
  ELSE IF st.info_panel_visible
  THEN [st EXCEPT !.info_panel_visible = FALSE]
  ELSE [st EXCEPT !.selected_log_idx = -1]

\* handle_key, key == '\x1b': just escape
handle_escape(st) ==
  IF st.detail_popup_visible
  THEN [st EXCEPT !.detail_popup_visible = FALSE]
  ELSE IF st.search_active
  THEN [st EXCEPT !.search_active = FALSE, !.search_query = << >>]
  ELSE IF st.info_panel_visible
  THEN [st EXCEPT !.info_panel_visible = FALSE]
  ELSE [st EXCEPT !.selected_log_idx = -1]

\* the mutant: enter opens the popup whatever the log selection
handle_enter_Always(st) ==
  [st EXCEPT !.detail_popup_visible = TRUE]

\* handle_key, key == '\r' or key == '\n': enter - show detail
handle_enter(st) ==
  IF st.info_panel_visible
  THEN [st EXCEPT !.detail_popup_visible = TRUE]
  ELSE IF st.selected_log_idx >= 0
  THEN [st EXCEPT !.detail_popup_visible = TRUE]
  ELSE st

\* the mutant: the toggle keeps the command selection and the scroll offset
handle_info_toggle_KeepsSelection(st) ==
  IF st.detail_popup_visible
  THEN [st EXCEPT !.detail_popup_visible = FALSE]
  ELSE [st EXCEPT !.info_panel_visible = ~@]

\* handle_key, key == 'i': info panel toggle
handle_info_toggle(st) ==
  IF st.detail_popup_visible
  THEN [st EXCEPT !.detail_popup_visible = FALSE]
  ELSE [st EXCEPT !.info_panel_visible = ~@, !.scroll_offset = 0,
                  !.selected_cmd_idx = 0]

\* handle_key: the TUIState after the key
handle_key(st, k, max_idx) ==
  IF k = << >> THEN st
  ELSE IF k = KeyCtrlC THEN st
  ELSE IF k = KeyUp THEN handle_navigation(st, "up", max_idx)
  ELSE IF k = KeyDown THEN handle_navigation(st, "down", max_idx)
  ELSE IF k = KeyEsc THEN handle_escape(st)
  ELSE IF k = KeyChar("i") THEN handle_info_toggle(st)
  ELSE IF k = KeyChar("/") /\ st.info_panel_visible
       THEN [st EXCEPT !.search_active = TRUE, !.search_query = << >>]
  ELSE IF k = KeyChar("j") THEN handle_navigation(st, "down", max_idx)
  ELSE IF k = KeyChar("k") THEN handle_navigation(st, "up", max_idx)
  ELSE IF k = KeyEnter \/ k = <<10>> THEN handle_enter(st)
  ELSE IF st.search_active THEN
         IF k = KeyBackspace
         THEN [st EXCEPT !.search_query = SubSeq(@, 1, Len(@) - 1)]
         ELSE IF Len(k) = 1 /\ isprintable(k[1])
         THEN [st EXCEPT !.search_query = @ \o k]
         ELSE st
  ELSE st

\* the mutant: escape quits too
handle_key_quits_Esc(k) == k = KeyCtrlC \/ k = KeyEsc

\* handle_key: its return value, "should quit"
handle_key_quits(k) == k = KeyCtrlC

\* handle_key reaches the part of handle_navigation that takes _state_lock
reads_log_length(st, k) ==
  /\ k \in {KeyUp, KeyDown, KeyChar("j"), KeyChar("k")}
  /\ ~st.info_panel_visible

(***************************************************************************)
(* TUI RENDERING: what each render function reads and shows.               *)
(***************************************************************************)
\* extract_command_info(protocol) for a protocol of three commands, sorted
\* by name as the function sorts them (upper case before lower case)
protocol_commands ==
  << [name |-> Lit(<<"V", "O", "L">>), description |-> << >>],
     [name |-> Lit(<<"m", "u", "t", "e">>),
      description |-> Lit(<<"V", "o", "l", "u", "m", "e", " ", "o", "f", "f">>)],
     [name |-> Lit(<<"o", "n">>),
      description |-> Lit(<<"P", "o", "w", "e", "r">>)] >>

\* render_info_panel: visible_count
visible_count == 12
\* render_commands: the rows of the command log panel
recent_rows == 15
\* render_clients: the clients listed
clients_listed == 10

\* Python's l[a:b] for 0 <= a <= b
Slice(l, a, b) == SubSeq(l, Min(a, Len(l)) + 1, Min(b, Len(l)))

\* render_info_panel: filtered_cmds
filtered_cmds(query) ==
  IF query = << >> THEN protocol_commands
  ELSE LET q == Lower(query)
       IN  SelectSeq(protocol_commands,
                     LAMBDA c : \/ Contains(Lower(c.name), q)
                                \/ Contains(Lower(c.description), q))

\* render_info_panel: the TUIState it leaves (the scroll offset moved to
\* keep the selection visible, then the selection clamped to the list)
render_info_panel_state(st) ==
  LET cmds   == filtered_cmds(st.search_query)
      scroll == IF st.selected_cmd_idx >= st.scroll_offset + visible_count
                THEN st.selected_cmd_idx - visible_count + 1
                ELSE st.scroll_offset
      sel    == IF cmds # << >> THEN Min(st.selected_cmd_idx, Len(cmds) - 1)
                ELSE st.selected_cmd_idx
  IN  [st EXCEPT !.scroll_offset = scroll, !.selected_cmd_idx = sel]

\* render_info_panel: the rows it lists, and the row marked as selected
\* (0: none)
render_info_panel(st) ==
  LET after == render_info_panel_state(st)
      cmds  == filtered_cmds(st.search_query)
      start == after.scroll_offset
      rows  == Slice(cmds, start, start + visible_count)
      mark  == after.selected_cmd_idx - start + 1
  IN  [rows |-> rows,
       marked |-> IF mark >= 1 /\ mark <= Len(rows) THEN mark ELSE 0]

\* render_detail_popup: the command or the log entry it shows, if any
render_detail_popup(st, log) ==
  IF st.info_panel_visible
  THEN IF protocol_commands # << >> /\ st.selected_cmd_idx < Len(protocol_commands)
       THEN << protocol_commands[st.selected_cmd_idx + 1] >>
       ELSE << >>
  ELSE IF st.selected_log_idx >= 0 /\ st.selected_log_idx < Len(log)
       THEN << log[Len(log) - st.selected_log_idx] >>
       ELSE << >>

\* render_commands: the rows (the newest recent_rows entries) and the row
\* marked as selected (0: none)
render_commands(st, log) ==
  LET recent == SubSeq(log, Max(1, Len(log) - recent_rows + 1), Len(log))
      mark   == Len(recent) - st.selected_log_idx
  IN  [rows |-> recent,
       marked |-> IF st.selected_log_idx >= 0 /\ mark >= 1 THEN mark ELSE 0]

\* render_clients: client_list and count
render_clients(cl) ==
  [client_list |-> [i \in 1..Min(clients_listed, Len(cl)) |-> client_id(cl[i])],
   count |-> Len(cl)]

(***************************************************************************)
(* run_with_rich_tui: the console loop on the main thread.  One tick reads *)
(* a key and handles it, polls the listening socket, and renders a frame.  *)
(***************************************************************************)
\* the keys of the runs with sessions: the keys that act on the command log
NavKeys ==
  {KeyNone, KeyCtrlC, KeyEsc, KeyUp, KeyDown, KeyChar("j"), KeyChar("k"),
   KeyEnter}

\* the keys of the runs of the console alone
AllKeys ==
  NavKeys \cup {KeyChar("i"), KeyRight, KeyBackspace, KeyTab, KeyChar("/"),
                KeyChar("v"), KeyChar("m"), KeyChar("V")}

\* the process ends: its daemon threads end with it
ProcessEnds(how) ==
  /\ proc' = how
  /\ pc' = [s \in Sessions |->
              IF pc[s] \in {"new", "done"} THEN pc[s] ELSE "killed"]
  /\ acc_pc' = "exited"

\* key = get_key_nonblocking(...); if handle_key(key, protocol): break
\* (after the break run_with_rich_tui returns, and main with it)
TuiKey(keys) ==
  /\ tui_pc = "key"
  /\ \E k \in keys :
       /\ reads_log_length(tui_state, k) => CanAcquire(state_lock, Acceptor)
       /\ LET st == handle_key(tui_state, k, Len(command_log) - 1)
          IN  /\ Len(st.search_query) <= MaxQuery
              /\ st.selected_cmd_idx <= MaxCmdIdx
              /\ tui_state' = st
       /\ key' = k
       /\ IF handle_key_quits(k)
          THEN tui_pc' = "quit" /\ ProcessEnds("exit0")
          ELSE tui_pc' = "select" /\ UNCHANGED <<proc, pc, acc_pc>>
  /\ frame' = NoFrame
  /\ UNCHANGED <<registry, gateway, locals, sockets, acc_new, history,
                 classifier, startup>>

\* select finds nothing to accept (or accept raises BlockingIOError)
TuiNoConnection ==
  /\ tui_pc = "select"
  /\ tui_pc' = "display"
  /\ key' = KeyNone
  /\ UNCHANGED <<registry, gateway, pc, locals, sockets, acceptor, history,
                 classifier, tui_state, frame, proc,
                 startup>>

\* sock, address = server_socket.accept(); Server(...) begins
TuiAccept ==
  /\ tui_pc = "select"
  /\ acc_new < MaxTuiAccepts
  /\ acc_new' = acc_new + 1
  /\ sock_open' = [sock_open EXCEPT ![acc_new + 1] = TRUE]
  /\ pc' = [pc EXCEPT ![acc_new + 1] = "init"]
  /\ acc_pc' = "reg_lock"
  /\ tui_pc' = "construct"
  /\ key' = KeyNone
  /\ UNCHANGED <<registry, gateway, locals, sent, history, classifier,
                 tui_state, frame, proc,
                 startup>>

\* accept raises an OSError other than BlockingIOError: it leaves the loop
\* and run_with_rich_tui, and main's except OSError exits with status 1
TuiAcceptRaises ==
  /\ tui_pc = "select"
  /\ tui_pc' = "failed"
  /\ ProcessEnds("exit1")
  /\ key' = KeyNone
  /\ UNCHANGED <<registry, gateway, locals, sockets, acc_new, history,
                 classifier, tui_state, frame, startup>>

\* Server(...).start()
TuiStart ==
  /\ tui_pc = "construct"
  /\ acc_pc = "start"
  /\ pc' = [pc EXCEPT ![acc_new] = "recv"]
  /\ acc_pc' = "accept"
  /\ tui_pc' = "display"
  /\ UNCHANGED <<registry, gateway, locals, sockets, acc_new, history,
                 classifier, tui_state, key, frame, proc,
                 startup>>

\* start() raises RuntimeError (no thread can be started): nothing catches it
TuiStartRaises ==
  /\ tui_pc = "construct"
  /\ acc_pc = "start"
  /\ tui_pc' = "failed"
  /\ ProcessEnds("crashed")
  /\ UNCHANGED <<registry, gateway, locals, sockets, acc_new, history,
                 classifier, tui_state, key, frame, startup>>

\* generate_display: the detail popup takes precedence; the log is read
\* under _state_lock when the popup is for a log entry
TuiRenderDetailPopup ==
  /\ tui_pc = "display"
  /\ tui_state.detail_popup_visible
  /\ ~tui_state.info_panel_visible => CanAcquire(state_lock, Acceptor)
  /\ frame' = [frame EXCEPT
                 !.detail = << render_detail_popup(tui_state, command_log) >>]
  /\ tui_pc' = "key"
  /\ UNCHANGED <<registry, gateway, pc, locals, sockets, acceptor, history,
                 classifier, tui_state, key, proc,
                 startup>>

\* generate_display: the info panel is full screen
TuiRenderInfoPanel ==
  /\ tui_pc = "display"
  /\ ~tui_state.detail_popup_visible
  /\ tui_state.info_panel_visible
  /\ frame' = [frame EXCEPT !.info = << render_info_panel(tui_state) >>]
  /\ tui_state' = render_info_panel_state(tui_state)
  /\ tui_pc' = "key"
  /\ UNCHANGED <<registry, gateway, pc, locals, sockets, acceptor, history,
                 classifier, key, proc,
                 startup>>

\* generate_display, normal layout: render_clients reads _clients under
\* _state_lock
TuiRenderClients ==
  /\ tui_pc = "display"
  /\ ~tui_state.detail_popup_visible
  /\ ~tui_state.info_panel_visible
  /\ CanAcquire(state_lock, Acceptor)
  /\ frame' = [frame EXCEPT !.clients = << render_clients(clients) >>]
  /\ tui_pc' = "render_state"
  /\ UNCHANGED <<registry, gateway, pc, locals, sockets, acceptor, history,
                 classifier, tui_state, key, proc,
                 startup>>

\* what emulator.state.to_dict() can yield: the device state, and while a
\* session is inside process_command also the state that call is about to
\* leave, or an exception of the iteration, which render_state turns into {}
state_views ==
  {<< device >>}
    \cup {<< process_state(data[s], device) >> :
            s \in {t \in Sessions : pc[t] = "emu_inside"}}
    \cup (IF in_call > 0 THEN {<< >>} ELSE {})

\* render_state: state_dict = emulator.state.to_dict(), no lock taken
TuiRenderState ==
  /\ tui_pc = "render_state"
  /\ \E view \in state_views : frame' = [frame EXCEPT !.state = << view >>]
  /\ tui_pc' = "render_commands"
  /\ UNCHANGED <<registry, gateway, pc, locals, sockets, acceptor, history,
                 classifier, tui_state, key, proc,
                 startup>>

\* render_commands: recent = list(_command_log)[-15:] under _state_lock
TuiRenderCommands ==
  /\ tui_pc = "render_commands"
  /\ CanAcquire(state_lock, Acceptor)
  /\ frame' = [frame EXCEPT
                 !.commands = << render_commands(tui_state, command_log) >>]
  /\ tui_pc' = "render_footer"
  /\ UNCHANGED <<registry, gateway, pc, locals, sockets, acceptor, history,
                 classifier, tui_state, key, proc,
                 startup>>

\* the mutant: render_footer reads the counters without the lock
TuiRenderFooter_NoLock ==
  /\ tui_pc = "render_footer"
  /\ frame' = [frame EXCEPT !.footer = << stats >>]
  /\ tui_pc' = "key"
  /\ UNCHANGED <<registry, gateway, pc, locals, sockets, acceptor, history,
                 classifier, tui_state, key, proc,
                 startup>>

\* render_footer: the three counters under _state_lock; live.update
TuiRenderFooter ==
  /\ tui_pc = "render_footer"
  /\ CanAcquire(state_lock, Acceptor)
  /\ frame' = [frame EXCEPT !.footer = << stats >>]
  /\ tui_pc' = "key"
  /\ UNCHANGED <<registry, gateway, pc, locals, sockets, acceptor, history,
                 classifier, tui_state, key, proc,
                 startup>>

\* the steps of the Server threads
SessionStep ==
  \/ \E s \in Sessions : Recv(s)
  \/ \E s \in Sessions : RecvEof(s)
  \/ \E s \in Sessions : RecvRaises(s)
  \/ \E s \in Sessions : EmulatorLock(s)
  \/ \E s \in Sessions : ProcessReturn(s)
  \/ \E s \in Sessions : ProcessRaises(s)
  \/ \E s \in Sessions : LogLock(s)
  \/ \E s \in Sessions : LogReadCommands(s)
  \/ \E s \in Sessions : LogWriteCommands(s)
  \/ \E s \in Sessions : LogReadErrors(s)
  \/ \E s \in Sessions : LogWriteErrors(s)
  \/ \E s \in Sessions : LogUnlock(s)
  \/ \E s \in Sessions : Send(s)
  \/ \E s \in Sessions : SendRaises(s)
  \/ \E s \in Sessions : DeregisterLock(s)
  \/ \E s \in Sessions : DeregisterUnlock(s)

\* the frame of the normal layout: generate_display
TuiRenderLayout ==
  \/ TuiRenderClients
  \/ TuiRenderState
  \/ TuiRenderCommands
  \/ TuiRenderFooter

\* the console started by main with --tui: the first frame is rendered when
\* Live is entered, then the loop runs
InitTui ==
  /\ InitServer
  /\ tui_state = TUIState
  /\ key = << >>
  /\ tui_pc = "display"
  /\ frame = NoFrame
  /\ proc = "running"
  /\ InitStartupOff
  /\ cls_in = << >>
  /\ cls_out = << >>

\* the console and the sessions it accepts
NextTui ==
  \/ TuiKey(NavKeys)
  \/ TuiNoConnection
  \/ TuiAccept
  \/ TuiAcceptRaises
  \/ RegisterLock
  \/ RegisterRead
  \/ RegisterWrite
  \/ RegisterUnlock
  \/ TuiStart
  \/ TuiStartRaises
  \/ TuiRenderDetailPopup
  \/ TuiRenderLayout
  \/ SessionStep

SpecTui == InitTui /\ [][NextTui]_vars

(***************************************************************************)
(* The console alone: an earlier connection has made KeysLogged exchanges  *)
(* and closed, and nothing connects while the operator types.              *)
(***************************************************************************)
InitConsoleAlone(logged) ==
  /\ policy = "error"
  /\ command_log = [i \in 1..logged |-> EarlierEntry(i, policy)]
  /\ stats = [commands |-> logged, connections |-> 1,
              errors |-> Cardinality({i \in 1..logged :
                                        command_log[i].is_error})]
  /\ clock = logged
  /\ device = [power |-> logged > 0]
  /\ clients = << >>
  /\ state_lock = {}
  /\ emulator_lock = {}
  /\ in_call = 0
  /\ pc = [s \in Sessions |-> "new"]
  /\ data = [s \in Sessions |-> << >>]
  /\ response = [s \in Sessions |-> << >>]
  /\ tmp = [t \in Threads |-> 0]
  /\ sock_open = [s \in Sessions |-> FALSE]
  /\ sent = [s \in Sessions |-> << >>]
  /\ acc_pc = "accept"
  /\ acc_new = 0
  /\ reads = [s \in Sessions |-> 0]
  /\ returned = [s \in Sessions |-> << >>]
  /\ call_order = << >>
  /\ appended = [s \in Sessions |-> 0]
  /\ closes = [s \in Sessions |-> 0]
  /\ removals = [s \in Sessions |-> 0]
  /\ exit_why = [s \in Sessions |-> "none"]
  /\ tui_state = TUIState
  /\ key = << >>
  /\ tui_pc = "display"
  /\ frame = NoFrame
  /\ proc = "running"
  /\ InitStartupOff
  /\ cls_in = << >>
  /\ cls_out = << >>

InitKeys == InitConsoleAlone(KeysLogged)

NextKeys ==
  \/ TuiKey(AllKeys)
  \/ TuiNoConnection
  \/ TuiRenderDetailPopup
  \/ TuiRenderInfoPanel
  \/ TuiRenderLayout

SpecKeys == InitKeys /\ [][NextKeys]_vars

(***************************************************************************)
(* The console alone over a log longer than the command-log panel: the     *)
(* operator moves the selection through the log.                           *)
(***************************************************************************)
InitLongLog == InitConsoleAlone(LongLogged)

NextLongLog ==
  \/ TuiKey(NavKeys)
  \/ TuiNoConnection
  \/ TuiRenderDetailPopup
  \/ TuiRenderLayout

SpecLongLog == InitLongLog /\ [][NextLongLog]_vars

(***************************************************************************)
(* run_simple with the failures of its two calls: the loop catches         *)
(* KeyboardInterrupt only, and main catches OSError only.                  *)
(***************************************************************************)
\* server_socket.accept() raises an OSError (the peer has gone, no file
\* descriptor is left): it leaves run_simple, and main's except OSError
\* reports a failure to bind and exits with status 1
AcceptRaises ==
  /\ acc_pc = "accept"
  /\ ProcessEnds("exit1")
  /\ UNCHANGED <<registry, gateway, locals, sockets, acc_new, history,
                 classifier, console, startup>>

\* Server(...).start() raises RuntimeError (no thread can be started):
\* nothing catches it
StartRaises ==
  /\ acc_pc = "start"
  /\ ProcessEnds("crashed")
  /\ UNCHANGED <<registry, gateway, locals, sockets, acc_new, history,
                 classifier, console, startup>>

NextSimple ==
  \/ Next
  \/ AcceptRaises
  \/ StartRaises

SpecSimple == Init /\ [][NextSimple]_vars

(***************************************************************************)
(* main: the arguments, the protocol identifier and the listening port.    *)
(***************************************************************************)
DEFAULT_PORT == 4999

\* the values of --port
Ports == {0, 80, 4998, DEFAULT_PORT, 5000}
\* the ports a protocol declares
DeclaredPorts == Ports \ {0}

\* the characters of a --model argument: a letter and the two separators
IdChars == {Ord("a"), Ord("_"), Ord("/")}
\* the values of --model: not given (the empty str), or a str of IdChars
ModelArgs ==
  UNION {[1..n -> IdChars] : n \in 0..MaxIdLen}

\* the identifiers ProtocolLibrary.load finds
Library == {Lit(<<"a", "/", "a">>)}

\* the loaded protocol, as far as get_default_port reads it: connection.ip
\* present or not, and its port (<< >>: None)
Protocols ==
  {[has_ip |-> FALSE, port |-> << >>], [has_ip |-> TRUE, port |-> << >>]}
    \cup {[has_ip |-> TRUE, port |-> << p >>] : p \in DeclaredPorts}

\* the mutant: only the first underscore is replaced
normalize_protocol_id_First(model_arg) ==
  [i \in 1..Len(model_arg) |->
     IF /\ model_arg[i] = Ord("_")
        /\ \A j \in 1..(i - 1) : model_arg[j] # Ord("_")
     THEN Ord("/") ELSE model_arg[i]]

\* normalize_protocol_id: model_arg.replace('_', '/')
normalize_protocol_id(model_arg) ==
  [i \in 1..Len(model_arg) |->
     IF model_arg[i] = Ord("_") THEN Ord("/") ELSE model_arg[i]]

\* get_default_port
get_default_port(protocol) ==
  IF protocol.has_ip THEN protocol.port ELSE << >>

\* argparse: args.port, with default=DEFAULT_PORT
args_port(port_arg) ==
  IF port_arg = << >> THEN DEFAULT_PORT ELSE port_arg[1]

\* main: port = args.port; if port == DEFAULT_PORT: if device_port := ...
listen_port(port_arg, protocol) ==
  LET device_port == get_default_port(protocol)
  IN  IF /\ args_port(port_arg) = DEFAULT_PORT
         /\ device_port # << >> /\ device_port[1] # 0
      THEN device_port[1]
      ELSE args_port(port_arg)

InitMain ==
  /\ InitServer
  /\ InitConsoleOff
  /\ cls_in = << >>
  /\ cls_out = << >>
  /\ demo = DemoOff
  /\ \E m \in ModelArgs, pa \in {<< >>} \cup {<< p >> : p \in Ports},
        pr \in Protocols :
        main_st = [pc |-> "args", model |-> m, port_arg |-> pa,
                   protocol |-> pr, protocol_id |-> << >>, port |-> << >>]

\* if not args.model: parser.error(...), which exits with status 2
MainNoModel ==
  /\ main_st.pc = "args"
  /\ main_st.model = << >>
  /\ main_st' = [main_st EXCEPT !.pc = "exit2"]
  /\ UNCHANGED <<registry, gateway, pc, locals, sockets, acceptor, history,
                 classifier, console, proc, demo>>

\* protocol_id = normalize_protocol_id(args.model)
MainNormalize ==
  /\ main_st.pc = "args"
  /\ main_st.model # << >>
  /\ main_st' = [main_st EXCEPT
                   !.pc = "load",
                   !.protocol_id = normalize_protocol_id(main_st.model)]
  /\ UNCHANGED <<registry, gateway, pc, locals, sockets, acceptor, history,
                 classifier, console, proc, demo>>

\* protocol = library.load(protocol_id); emulator = EmulatorClient(protocol)
MainLoad ==
  /\ main_st.pc = "load"
  /\ main_st.protocol_id \in Library
  /\ main_st' = [main_st EXCEPT !.pc = "port"]
  /\ UNCHANGED <<registry, gateway, pc, locals, sockets, acceptor, history,
                 classifier, console, proc, demo>>

\* library.load raises: "Could not find model", sys.exit(1)
MainLoadRaises ==
  /\ main_st.pc = "load"
  /\ main_st.protocol_id \notin Library
  /\ main_st' = [main_st EXCEPT !.pc = "exit1"]
  /\ UNCHANGED <<registry, gateway, pc, locals, sockets, acceptor, history,
                 classifier, console, proc, demo>>

\* the port main binds and listens on
MainPort ==
  /\ main_st.pc = "port"
  /\ main_st' = [main_st EXCEPT
                   !.pc = "listen",
                   !.port = << listen_port(main_st.port_arg,
                                           main_st.protocol) >>]
  /\ UNCHANGED <<registry, gateway, pc, locals, sockets, acceptor, history,
                 classifier, console, proc, demo>>

NextMain ==
  \/ MainNoModel
  \/ MainNormalize
  \/ MainLoad
  \/ MainLoadRaises
  \/ MainPort

SpecMain == InitMain /\ [][NextMain]_vars

(***************************************************************************)
(* run_demo_traffic: the generator thread started by --demo.  The server   *)
(* is reachable or not as the environment has it.                          *)
(***************************************************************************)
demo_commands ==
  << Lit(<<"!", "O", "N">>), Lit(<<"!", "P", "L", "A", "Y">>),
     Lit(<<"!", "B", "A", "D", "C", "M", "D">>),
     Lit(<<"!", "S", "T", "A", "T", "E", "?">>),
     Lit(<<"!", "V", "O", "L", "(", "9", "9", "9", ")">>),
     Lit(<<"!", "P", "A", "U", "S", "E">>), Lit(<<"!", "S", "T", "O", "P">>),
     Lit(<<"!", "O", "F", "F">>) >>

InitDemo ==
  /\ InitServer
  /\ InitConsoleOff
  /\ cls_in = << >>
  /\ cls_out = << >>
  /\ main_st = MainOff
  /\ demo \in {[pc |-> "sleep", up |-> u, i |-> 0, sent |-> << >>] :
                 u \in BOOLEAN}

\* _time.sleep(2.0) is over; for cmd in demo_commands
DemoLoop ==
  /\ demo.pc = "sleep"
  /\ demo' = [demo EXCEPT !.pc = "try", !.i = 1]
  /\ UNCHANGED <<registry, gateway, pc, locals, sockets, acceptor, history,
                 classifier, console, proc, main_st>>

\* connect or send raises; except Exception: _time.sleep(0.5), and the for
\* loop goes on with the next command
DemoRaises ==
  /\ demo.pc = "try"
  /\ demo.i <= Len(demo_commands)
  /\ ~demo.up
  /\ demo' = [demo EXCEPT !.i = @ + 1]
  /\ UNCHANGED <<registry, gateway, pc, locals, sockets, acceptor, history,
                 classifier, console, proc, main_st>>

\* connect and send succeed; recv (a timeout is passed over), close
DemoSend ==
  /\ demo.pc = "try"
  /\ demo.i <= Len(demo_commands)
  /\ demo.up
  /\ demo' = [demo EXCEPT !.sent = Append(@, demo_commands[demo.i]),
                          !.i = @ + 1]
  /\ UNCHANGED <<registry, gateway, pc, locals, sockets, acceptor, history,
                 classifier, console, proc, main_st>>

\* the for loop is exhausted: the thread ends
DemoEnd ==
  /\ demo.pc = "try"
  /\ demo.i > Len(demo_commands)
  /\ demo' = [demo EXCEPT !.pc = "done"]
  /\ UNCHANGED <<registry, gateway, pc, locals, sockets, acceptor, history,
                 classifier, console, proc, main_st>>

\* the environment: the server becomes reachable, or stops being so
ServerReachable ==
  /\ demo.pc # "off"
  /\ demo' = [demo EXCEPT !.up = ~@]
  /\ UNCHANGED <<registry, gateway, pc, locals, sockets, acceptor, history,
                 classifier, console, proc, main_st>>

NextDemo ==
  \/ DemoLoop
  \/ DemoRaises
  \/ DemoSend
  \/ DemoEnd
  \/ ServerReachable

SpecDemo == InitDemo /\ [][NextDemo]_vars

(***************************************************************************)
(* Verification.                                                           *)
(***************************************************************************)
\* the items of a list
Range(l) == {l[i] : i \in 1..Len(l)}

\* the thread t takes the step
Moved(t) == IF t = Acceptor THEN acc_pc' # acc_pc ELSE pc'[t] # pc[t]

\* C1: at most one thread is inside the engine's process_command at any
\* time, however many sessions compete for it.
C1_AtMostOneInCall ==
  /\ in_call <= 1
  /\ Cardinality({s \in Sessions : pc[s] = "emu_inside"}) <= 1

\* one session is inside the call while another waits for the lock
C1_Witness ==
  \E s, t \in Sessions :
     s # t /\ pc[s] = "emu_inside" /\ in_call = 1 /\ pc[t] = "emu_lock"

\* C2: when N sessions have each completed k exchanges, under every
\* interleaving the final _stats['commands'] is N*k, it is the number of
\* entries ever appended, and every session appended one entry per exchange.
C2_NoLostOrDuplicatedCommand ==
  ((\A s \in Sessions : pc[s] = "done") /\ state_lock = {}) =>
     /\ stats.commands = Total(appended)
     /\ \A s \in Sessions : appended[s] = Len(returned[s])
     /\ \A s \in Sessions :
          Cardinality({i \in 1..Len(command_log) :
                          command_log[i].client_id = client_id(s)}) = appended[s]
     /\ \A k \in 0..MaxReads :
          (\A s \in Sessions : Len(returned[s]) = k) =>
             stats.commands = NumSessions * k

\* every session has completed the same number (at least one) of exchanges
\* and all have ended
C2_Witness ==
  /\ \A s \in Sessions : pc[s] = "done" /\ Len(returned[s]) >= 1
  /\ \A s, t \in Sessions : Len(returned[s]) = Len(returned[t])
  /\ stats.commands = NumSessions * Len(returned[1])

\* C3: the command log never holds more than 100 entries, and an append to
\* a log of 100 entries drops exactly the oldest one and keeps the other 99
\* in order, followed by the new entry.
C3_LogBounded ==
  /\ [](Len(command_log) <= 100)
  /\ [][(Len(command_log) = 100 /\ command_log' # command_log) =>
          /\ Len(command_log') = 100
          /\ \A i \in 1..99 : command_log'[i] = command_log[i + 1]
          /\ command_log'[100].timestamp = clock']_vars

\* a full log has taken one more entry: the first logged entry is gone
C3_Witness ==
  /\ Len(command_log) = 100
  /\ clock = 101
  /\ command_log[1].timestamp = 2
  /\ command_log[100].timestamp = 101

\* C4: whatever ended its loop, a session that has run its cleanup has its
\* socket closed, closed once, was removed from _clients once and is not in
\* _clients.
C4_CleanupOnEveryExit ==
  \A s \in Sessions :
     /\ closes[s] <= 1 /\ removals[s] <= 1
     /\ pc[s] \in {"dereg_lock", "dereg_unlock", "done"} =>
           ~sock_open[s] /\ closes[s] = 1
     /\ pc[s] \in {"dereg_unlock", "done"} =>
           removals[s] = 1 /\ s \notin Range(clients)

\* a session whose loop was ended by an exception has been cleaned up
C4_Witness ==
  \E s \in Sessions :
     /\ pc[s] = "dereg_unlock" /\ exit_why[s] = "BrokenPipeError"
     /\ ~sock_open[s] /\ removals[s] = 1 /\ s \notin Range(clients)

\* C5: no session is at recv or send while it holds _emulator_lock, and no
\* session enters or is inside process_command while it holds _state_lock.
C5_LocksNotHeldAcrossIO ==
  \A s \in Sessions :
     /\ pc[s] \in {"recv", "send"} => s \notin emulator_lock
     /\ pc[s] \in {"emu_lock", "emu_inside"} => s \notin state_lock

\* one session is about to send while another is inside the engine, and a
\* session is inside the engine while the registry lock is held by another
C5_Witness ==
  \E s, t \in Sessions :
     /\ pc[s] = "send" /\ pc[t] = "emu_inside"
     /\ emulator_lock = {t} /\ s \notin state_lock

\* C6: an exception in one session's cycle, the engine's included, ends only
\* that session: it holds no lock afterwards, and the step changes neither
\* another session, nor the accept loop, nor the registry.
C6_FailureIsolated ==
  /\ [](\A s \in Sessions :
          pc[s] \in {"dereg_lock", "done"} =>
             s \notin emulator_lock /\ s \notin state_lock)
  /\ [](\A s \in emulator_lock : pc[s] = "emu_inside")
  /\ [][\A s \in Sessions :
          (pc[s] \in {"recv", "emu_inside", "send"} /\ pc'[s] = "dereg_lock"
             /\ exit_why'[s] # "eof") =>
             /\ \A t \in Sessions \ {s} : pc'[t] = pc[t]
             /\ UNCHANGED <<acceptor, registry>>
             /\ s \notin emulator_lock']_vars

\* the engine raised in one session, and another session is inside the
\* engine afterwards
C6_Witness ==
  \E s, t \in Sessions :
     /\ pc[s] = "dereg_lock" /\ exit_why[s] = "engine"
     /\ pc[t] = "emu_inside" /\ emulator_lock = {t}

\* the non-empty items of a list of buffers
NonEmpty(l) == SelectSeq(l, LAMBDA b : b # << >>)

StatedIsError(r) ==
  LET u == Upper(r)
  IN  /\ r # << >>
      /\ \/ StartsWith(u, Lit(<<"E", "R", "R", "O", "R">>))
         \/ Contains(u, Lit(<<"E", "R", "R">>))
         \/ StartsWith(u, Lit(<<"!", "E", "(">>))
         \/ Contains(u, Lit(<<"I", "N", "V", "A", "L", "I", "D">>))
         \/ Contains(u, Lit(<<"U", "N", "K", "N", "O", "W", "N">>))
         \/ StartsWith(u, Lit(<<"N", "A", "K">>))

\* C8: is_error_response(r) is true exactly when r is non-empty and its
\* upper-cased text starts with ERROR, contains ERR, starts with !E(,
\* contains INVALID, contains UNKNOWN or starts with NAK; "" and
\* "!STATE(OFF)" are not errors.
C8_IsErrorAsStated ==
  cls_out # << >> =>
     /\ cls_out[1] = StatedIsError(cls_in)
     /\ cls_in = << >> => cls_out[1] = FALSE
     /\ cls_in = Lit(<<"!", "S", "T", "A", "T", "E", "(", "O", "F", "F", ")">>)
           => cls_out[1] = FALSE

\* a lower-case response with the pattern in the middle is classified
C8_Witness ==
  /\ cls_in = Lit(<<"x", "u", "n", "k", "n", "o", "w", "n", "(", "1", ")">>)
  /\ cls_out = << TRUE >>

\* C9: no step lowers a counter of _stats, and a step that writes _stats is
\* taken by the one thread that holds _state_lock.
C9_CountersMonotoneUnderLock ==
  [][/\ stats'.commands >= stats.commands
     /\ stats'.connections >= stats.connections
     /\ stats'.errors >= stats.errors
     /\ stats' # stats =>
          \E t \in Threads : state_lock = {t} /\ Moved(t)]_vars

\* all three counters have been written
C9_Witness ==
  stats.commands >= 1 /\ stats.connections >= 2 /\ stats.errors >= 1

\* C10: no session is in _clients more than once.
C10_ClientsDistinct ==
  \A i, j \in 1..Len(clients) : i # j => clients[i] # clients[j]

\* two sessions are registered, then one of them has left
C10_Witness ==
  /\ Len(clients) = 1
  /\ \E s \in Sessions : pc[s] = "done"
  /\ \E s \in Sessions : pc[s] = "recv" /\ clients = << s >>

\* the entries of the log flagged as errors
ErrorEntries == {i \in 1..Len(command_log) : command_log[i].is_error}

\* C11: an entry is flagged exactly when the classifier flags its response,
\* and whenever no thread is inside the registry lock the error counter is
\* the number of entries ever logged with the flag (the log has evicted
\* nothing here), the command counter is the number of entries ever logged,
\* and errors <= commands.
C11_ErrorsCountedWithEntry ==
  /\ \A i \in 1..Len(command_log) :
        command_log[i].is_error = is_error_response(command_log[i].response)
  /\ state_lock = {} =>
        /\ Len(command_log) = Total(appended)
        /\ stats.commands = Len(command_log)
        /\ stats.errors = Cardinality(ErrorEntries)
        /\ stats.errors <= stats.commands

\* an error and a non-error have been logged and the lock is free
C11_Witness ==
  /\ state_lock = {}
  /\ stats.commands = 2
  /\ stats.errors = 1
  /\ Cardinality(ErrorEntries) = 1

\* the panel p of the frame is rendered by the step
Rendered(p) == frame'[p] # << >> /\ frame[p] = << >>

\* C12: the console reads _clients, _command_log and _stats only while no
\* other thread is inside the registry lock, so what it reads is the
\* registry between two whole operations (every appended entry counted, its
\* error counted, every registered session counted), and a step that changes
\* the registry afterwards leaves what was read as it is.
C12_SnapshotsUnderLock ==
  [][/\ Rendered("clients") =>
          /\ state_lock = {}
          /\ frame'.clients[1] = render_clients(clients)
          /\ frame'.clients[1].count = stats.connections - Total(removals)
     /\ Rendered("commands") =>
          /\ state_lock = {}
          /\ frame'.commands[1].rows =
                SubSeq(command_log, Max(1, Len(command_log) - recent_rows + 1),
                       Len(command_log))
          /\ Len(command_log) = stats.commands
     /\ Rendered("footer") =>
          /\ state_lock = {}
          /\ frame'.footer[1] = stats
          /\ frame'.footer[1].commands = Len(command_log)
          /\ frame'.footer[1].errors = Cardinality(ErrorEntries)
     /\ (Rendered("detail") /\ ~tui_state.info_panel_visible) =>
          /\ state_lock = {}
          /\ frame'.detail[1] # << >> =>
                frame'.detail[1][1] =
                  command_log[Len(command_log) - tui_state.selected_log_idx]
     /\ (tui_pc = "key" /\ tui_pc' = "select"
           /\ reads_log_length(tui_state, key')) =>
          state_lock = {}
     /\ (clients' # clients \/ command_log' # command_log \/ stats' # stats) =>
          frame' = frame]_vars

\* the footer was read before an exchange was logged, and still shows the
\* counters as they were
C12_Witness ==
  /\ frame.footer # << >>
  /\ frame.footer[1].commands = 1
  /\ stats.commands = 2
  /\ frame.commands # << >>
  /\ Len(frame.commands[1].rows) = 1

\* C13: the console never reads the device model's state: no frame holds a
\* device state, and the console is never about to read it while a session
\* is inside process_command.
C13_ConsoleNeverReadsDevice ==
  /\ frame.state = << >>
  /\ ~(tui_pc = "render_state" /\ in_call > 0)

\* the frame shows a device state that the call in progress has not yet
\* left behind
C13_Witness ==
  /\ in_call = 1
  /\ device.power = FALSE
  /\ frame.state = << << [power |-> TRUE] >> >>

\* C14: once the socket is bound the process keeps running and the accept
\* loop keeps accepting, whatever accept() or the start of a session does.
C14_AcceptLoopSurvives ==
  /\ proc = "running"
  /\ acc_pc # "exited"

\* an error of accept() has ended the process while a session was being
\* served and connections were still to come
C14_Witness ==
  /\ proc = "exit1"
  /\ acc_new < NumSessions
  /\ \E s \in Sessions : pc[s] = "killed"

\* C15: a failure inside a console tick does not end the console loop, and
\* the process goes on serving its sessions.
C15_TickFailureContained ==
  /\ tui_pc # "failed"
  /\ proc \notin {"exit1", "crashed"}

\* an error of the console's accept() has ended the loop and the process
\* while a session was in the middle of an exchange
C15_Witness ==
  /\ tui_pc = "failed"
  /\ proc = "exit1"
  /\ \E s \in Sessions : pc[s] = "killed" /\ reads[s] > Len(sent[s])

\* the entries of the log that session s appended, oldest first
EntriesOf(s) == SelectSeq(command_log, LAMBDA e : e.client_id = client_id(s))

\* the responses of the exchanges of s that have been logged, empty ones
\* left out
LoggedReplies(s) == NonEmpty(SubSeq(returned[s], 1, appended[s]))

\* C16 as stated: an entry is appended only when its exchange is complete,
\* so every logged non-empty response has been written to the client.
C16_LoggedAfterReply ==
  \A s \in Sessions : Len(LoggedReplies(s)) <= Len(sent[s])

\* C16, amended: an entry is appended only after the engine has returned
\* the response it records, and before that response is written: every
\* entry of a session records a response the engine returned to it, in
\* order; a session that is about to write has logged the exchange
\* already; and nothing is written that is not logged.
C16_LoggedAfterReturnBeforeReply ==
  \A s \in Sessions :
     /\ appended[s] <= Len(returned[s])
     /\ Len(EntriesOf(s)) = appended[s]
     /\ \A i \in 1..appended[s] :
           EntriesOf(s)[i].response =
             (IF returned[s][i] # << >> THEN Strip(Decode(returned[s][i]))
              ELSE << >>)
     /\ pc[s] = "send" => appended[s] = Len(returned[s])
     /\ Len(sent[s]) <= Len(LoggedReplies(s))

\* a write failed, and the entry of its exchange is in the log
C16_Witness ==
  \E s \in Sessions :
     /\ pc[s] = "dereg_lock" /\ exit_why[s] = "BrokenPipeError"
     /\ appended[s] = 1 /\ Len(EntriesOf(s)) = 1
     /\ returned[s] = << CmdOn >>
     /\ sent[s] = << >>

\* the console handles the key k in this step
Pressed(k) == tui_pc = "key" /\ tui_pc' \in {"select", "quit"} /\ key' = k

\* the fields of the TUIState that differ between two states
Changed(st, after) == {f \in DOMAIN st : st[f] # after[f]}

\* C17: one Esc press does exactly one thing, by priority: it closes the
\* popup; else it cancels the search (inactive, query empty); else it closes
\* the info panel; else it sets the log selection to -1; and it changes no
\* other field.
C17_EscByPriority ==
  [][Pressed(KeyEsc) =>
       /\ tui_pc' = "select"
       /\ IF tui_state.detail_popup_visible
          THEN /\ Changed(tui_state, tui_state') = {"detail_popup_visible"}
               /\ ~tui_state'.detail_popup_visible
          ELSE IF tui_state.search_active
          THEN /\ Changed(tui_state, tui_state') \subseteq
                     {"search_active", "search_query"}
               /\ ~tui_state'.search_active
               /\ tui_state'.search_query = << >>
          ELSE IF tui_state.info_panel_visible
          THEN /\ Changed(tui_state, tui_state') = {"info_panel_visible"}
               /\ ~tui_state'.info_panel_visible
          ELSE /\ Changed(tui_state, tui_state') \subseteq {"selected_log_idx"}
               /\ tui_state'.selected_log_idx = -1]_vars

\* Esc has closed the popup and left the search, its query and the info
\* panel as they were
C17_Witness ==
  /\ tui_pc = "select" /\ key = KeyEsc
  /\ ~tui_state.detail_popup_visible
  /\ tui_state.search_active
  /\ tui_state.search_query # << >>
  /\ tui_state.info_panel_visible

\* C18: the log selection is always in [-1, len(_command_log) - 1], whatever
\* the sessions append between the key presses; with the info panel closed,
\* k or the up arrow raises it by one unless it is at the newest-to-oldest
\* end len(_command_log) - 1, where it stays, and j or the down arrow lowers
\* it by one unless it is -1, where it stays.
C18_LogSelectionInRange ==
  /\ [](/\ tui_state.selected_log_idx >= -1
        /\ tui_state.selected_log_idx <= Len(command_log) - 1)
  /\ [][(~tui_state.info_panel_visible
          /\ (Pressed(KeyChar("k")) \/ Pressed(KeyUp))) =>
          /\ tui_state'.selected_log_idx =
                (IF tui_state.selected_log_idx < Len(command_log) - 1
                 THEN tui_state.selected_log_idx + 1
                 ELSE tui_state.selected_log_idx)
          /\ Changed(tui_state, tui_state') \subseteq {"selected_log_idx"}]_vars
  /\ [][(~tui_state.info_panel_visible
          /\ (Pressed(KeyChar("j")) \/ Pressed(KeyDown))) =>
          /\ tui_state'.selected_log_idx =
                (IF tui_state.selected_log_idx > -1
                 THEN tui_state.selected_log_idx - 1
                 ELSE -1)
          /\ Changed(tui_state, tui_state') \subseteq {"selected_log_idx"}]_vars

\* k was pressed with the selection on the oldest of two entries, one of
\* them appended after the selection was first made
C18_Witness ==
  /\ tui_pc = "select" /\ key = KeyChar("k")
  /\ Len(command_log) = 2
  /\ tui_state.selected_log_idx = 1
  /\ \E s \in Sessions : pc[s] = "send"

\* the keys of one printable character
PrintableKeys == {k \in AllKeys : Len(k) = 1 /\ isprintable(k[1])}

\* C19: while the search is active, a key of one printable character
\* appends that character to the query and changes no other field of the
\* TUIState, and backspace removes the last character of the query (an
\* empty query stays empty).
C19_SearchInputEdits ==
  [][tui_state.search_active =>
       /\ \A k \in PrintableKeys :
            Pressed(k) =>
              tui_state' = [tui_state EXCEPT !.search_query = @ \o k]
       /\ Pressed(KeyBackspace) =>
            tui_state' = [tui_state EXCEPT
                            !.search_query = SubSeq(@, 1, Len(@) - 1)]]_vars

\* the search was active with the query "v" and i was pressed: the info
\* panel has closed and the query is as it was
C19_Witness ==
  /\ tui_pc = "select" /\ key = KeyChar("i")
  /\ tui_state.search_active
  /\ tui_state.search_query = KeyChar("v")
  /\ ~tui_state.info_panel_visible

\* C20: the info panel lists exactly the commands whose name or description
\* contains the query without regard to case (all of them for the empty
\* query), in the order of protocol_commands, and at the end of every tick
\* with the info panel open the selected command index is an index of that
\* list (when the list has a command).
C20_PanelListsFilteredAndSelects ==
  LET cmds == filtered_cmds(tui_state.search_query)
  IN  /\ (tui_pc = "key" /\ frame.info # << >>) => frame.info[1].rows = cmds
      /\ (tui_pc = "key" /\ tui_state.info_panel_visible /\ cmds # << >>) =>
            /\ tui_state.selected_cmd_idx >= 0
            /\ tui_state.selected_cmd_idx < Len(cmds)

\* a tick has ended with the popup over the info panel and the selection
\* past the last of the three listed commands
C20_Witness ==
  /\ tui_pc = "key"
  /\ tui_state.info_panel_visible /\ tui_state.detail_popup_visible
  /\ frame.detail = << << >> >>
  /\ tui_state.search_query = << >>
  /\ tui_state.selected_cmd_idx = Len(protocol_commands)

\* C21: at the end of every tick that rendered the info panel, the selected
\* command is inside the window of visible_count rows that starts at
\* scroll_offset, whenever the filtered list has a command.
C21_SelectionInsideWindow ==
  (/\ tui_pc = "key"
   /\ frame.info # << >>
   /\ filtered_cmds(tui_state.search_query) # << >>) =>
    /\ tui_state.scroll_offset <= tui_state.selected_cmd_idx
    /\ tui_state.selected_cmd_idx < tui_state.scroll_offset + visible_count

\* the info panel was rendered with the window starting past the selection:
\* no row of the panel is marked
C21_Witness ==
  /\ tui_pc = "key"
  /\ frame.info # << >>
  /\ tui_state.search_query = << >>
  /\ tui_state.selected_cmd_idx = Len(protocol_commands) - 1
  /\ tui_state.scroll_offset > tui_state.selected_cmd_idx
  /\ frame.info[1].marked = 0

\* C22: with the info panel closed, enter opens the detail popup exactly
\* when the log selection is >= 0 and changes nothing when it is -1; with
\* the info panel open, enter always opens the popup; enter changes no
\* other field of the TUIState.
C22_EnterOpensPopup ==
  [][Pressed(KeyEnter) =>
       /\ Changed(tui_state, tui_state') \subseteq {"detail_popup_visible"}
       /\ tui_state.info_panel_visible => tui_state'.detail_popup_visible
       /\ (~tui_state.info_panel_visible /\ tui_state.selected_log_idx >= 0) =>
            tui_state'.detail_popup_visible
       /\ (~tui_state.info_panel_visible /\ tui_state.selected_log_idx = -1) =>
            tui_state' = tui_state]_vars

\* enter was pressed with the second newest log entry selected and the info
\* panel closed: the popup is open
C22_Witness ==
  /\ tui_pc = "select" /\ key = KeyEnter
  /\ ~tui_state.info_panel_visible
  /\ tui_state.selected_log_idx = 1
  /\ tui_state.detail_popup_visible

\* C23: whatever the TUIState (normal layout, info panel, search active,
\* popup open), the key ctrl+c ends the console loop in the tick that reads
\* it and leaves the TUIState as it was, and no other key ends the loop.
C23_OnlyCtrlCQuits ==
  [][\A k \in AllKeys :
       Pressed(k) =>
         /\ (tui_pc' = "quit") <=> (k = KeyCtrlC)
         /\ (k = KeyCtrlC) => (tui_state' = tui_state /\ proc' = "exit0")
         /\ (k # KeyCtrlC) => proc' = "running"]_vars

\* ctrl+c has ended the loop with the search active and the popup open over
\* the info panel
C23_Witness ==
  /\ tui_pc = "quit" /\ key = KeyCtrlC
  /\ proc = "exit0"
  /\ tui_state.info_panel_visible
  /\ tui_state.search_active
  /\ tui_state.detail_popup_visible

\* the steps of generate_display and of the render functions it calls
RenderStep ==
  /\ tui_pc \in {"display", "render_state", "render_commands", "render_footer"}
  /\ frame' # frame

\* C24: a step that renders (a part of) a frame, in the normal layout, the
\* info panel or the detail popup, leaves every field of the TUIState and
\* the registry (_clients, _command_log, _stats) as they were.
C24_RenderingChangesNothing ==
  [][RenderStep =>
       /\ tui_state' = tui_state
       /\ <<clients, command_log, stats>>' = <<clients, command_log, stats>>]_vars

\* the info panel was rendered and the scroll offset is 1: only
\* render_info_panel raises the scroll offset
C24_Witness ==
  /\ tui_pc = "key"
  /\ frame.info # << >>
  /\ tui_state.scroll_offset = 1
  /\ tui_state.selected_cmd_idx = 2

\* C25: the port main listens on is the value of --port whenever --port is
\* given; without --port it is the port the protocol declares, and
\* DEFAULT_PORT when the protocol declares none.
C25_ExplicitPortWins ==
  main_st.pc = "listen" =>
    main_st.port =
      IF main_st.port_arg # << >> THEN main_st.port_arg
      ELSE IF get_default_port(main_st.protocol) # << >>
           THEN get_default_port(main_st.protocol)
           ELSE << DEFAULT_PORT >>

\* --port 4999 was given for a protocol that declares port 80: main listens
\* on 80
C25_Witness ==
  /\ main_st.pc = "listen"
  /\ main_st.port_arg = << DEFAULT_PORT >>
  /\ main_st.protocol = [has_ip |-> TRUE, port |-> << 80 >>]
  /\ main_st.port = << 80 >>

\* an identifier in underscore format: no slash; in slash format: no
\* underscore
HasChar(s, c) == \E i \in 1..Len(s) : s[i] = c

C27_EveryDemoCommandSent ==
  (demo.pc = "done" /\ demo.up) => demo.sent = demo_commands

\* the thread has ended, the server is reachable, and the first command of
\* the script was never sent
C27_Witness ==
  /\ demo.pc = "done" /\ demo.up
  /\ demo.sent = Tail(demo_commands)

\* the last response the engine returned to session s is its answer to the
\* bytes of the session's last read
AnswersLastRead(s) ==
  /\ returned[s] # << >>
  /\ returned[s][Len(returned[s])] = process_command(data[s], policy)
  /\ data[s] # << >>

\* C28: for every session, each non-empty read is followed by one call of
\* process_command with the bytes read, and when the call has returned by
\* one log entry, before the next read: at every read the session has made
\* as many calls as reads and as many entries as returned calls.  A read
\* that has been made leads to its call, and a call that has returned leads
\* to its entry.  An empty read makes no call and no entry and ends the loop.
C28_OneCallOneEntryPerRead ==
  /\ [](\A s \in Sessions :
          LET r == reads[s]
              c == Len(returned[s])
              a == appended[s]
          IN  /\ pc[s] = "recv" => (r = c /\ a = c)
              /\ pc[s] \in {"emu_lock", "emu_inside"} =>
                   (r = c + 1 /\ a = c /\ data[s] # << >>)
              /\ pc[s] = "log_lock" =>
                   (r = c /\ a = c - 1 /\ AnswersLastRead(s))
              /\ pc[s] \in {"log_read_commands", "log_write_commands",
                            "log_read_errors", "log_write_errors",
                            "log_unlock", "send"} =>
                   (r = c /\ a = c /\ AnswersLastRead(s))
              /\ exit_why[s] = "eof" => (r = c /\ a = c /\ data[s] = << >>)
              /\ exit_why[s] # "none" =>
                   pc[s] \in {"dereg_lock", "dereg_unlock", "done"})
  /\ [][\A s \in Sessions :
          (pc[s] = "recv" /\ exit_why'[s] = "eof") =>
            /\ data'[s] = << >>
            /\ UNCHANGED <<returned, appended, command_log, in_call, reads,
                 call_order>>]_vars
  /\ \A s \in Sessions :
       /\ (pc[s] = "emu_lock") ~> (pc[s] = "emu_inside")
       /\ (pc[s] = "log_lock") ~> (appended[s] = Len(returned[s]))

\* a session made two reads, two calls that returned and two entries, and
\* then read the end of the stream
C28_Witness ==
  \E s \in Sessions :
    /\ exit_why[s] = "eof"
    /\ reads[s] = 2 /\ Len(returned[s]) = 2 /\ appended[s] = 2

\* the number of entries of _clients that are session s
Entries(s) == Cardinality({k \in 1..Len(clients) : clients[k] = s})

\* _register_client has appended session s
Registered(s) ==
  /\ pc[s] # "new"
  /\ ~(s = acc_new /\ acc_pc = "reg_lock")

\* _deregister_client has run for session s
Deregistered(s) == pc[s] \in {"dereg_unlock", "done"}

\* C29: a session has exactly one entry in _clients from its construction
\* until its own _deregister_client and none before or afterwards; the
\* construction appends that entry and raises the connections counter by
\* exactly one; _deregister_client of a session removes that session's
\* entry only and leaves the other entries in place and in order.
C29_EntryOwnedBySession ==
  /\ [](\A s \in Sessions :
          Entries(s) = IF Registered(s) /\ ~Deregistered(s) THEN 1 ELSE 0)
  /\ [](state_lock = {} =>
          stats.connections = Cardinality({s \in Sessions : Registered(s)}))
  /\ [][(acc_pc = "reg_lock" /\ acc_pc' = "reg_read") =>
          clients' = Append(clients, acc_new)]_vars
  /\ [][(acc_pc = "reg_write" /\ acc_pc' = "reg_unlock") =>
          (stats'.connections = stats.connections + 1 /\ clients' = clients)]_vars
  /\ [][\A s \in Sessions :
          (pc[s] = "dereg_lock" /\ pc'[s] = "dereg_unlock") =>
            clients' = SelectSeq(clients, LAMBDA x : x # s)]_vars
  /\ [][clients' # clients =>
          \/ acc_pc = "reg_lock"
          \/ \E s \in Sessions : pc[s] = "dereg_lock" /\ pc'[s] = "dereg_unlock"]_vars

\* the first session has gone through its cleanup while the second, which
\* was connected after it, is still in the list
C29_Witness ==
  /\ pc[1] = "done"
  /\ pc[2] = "recv"
  /\ clients = << 2 >>
  /\ stats.connections = 2

\* C30: when enter is pressed in the info panel, the detail popup shows the
\* command of the row that the info panel on screen marks as selected, for
\* every query and every selected row.
C30_PopupShowsMarkedCommand ==
  [][(/\ Pressed(KeyEnter)
      /\ tui_state.info_panel_visible
      /\ frame.info # << >>
      /\ frame.info[1].marked > 0) =>
       render_detail_popup(tui_state', command_log) =
         << frame.info[1].rows[frame.info[1].marked] >>]_vars

\* with the query "m" the info panel listed mute alone and marked it; the
\* popup over it shows VOL
C30_Witness ==
  /\ tui_pc = "key"
  /\ tui_state.info_panel_visible /\ tui_state.detail_popup_visible
  /\ tui_state.search_query = KeyChar("m")
  /\ filtered_cmds(tui_state.search_query) = << protocol_commands[2] >>
  /\ tui_state.selected_cmd_idx = 0
  /\ frame.detail = << << protocol_commands[1] >> >>

\* C31: with no popup open, the key i opens the info panel when it is closed
\* and closes it when it is open, sets the command selection and the scroll
\* offset to 0 and leaves the log selection, the search flag and the query
\* as they were.  The key / starts a search with an empty query when the
\* info panel is visible and changes nothing else then; when the info panel
\* is not visible it does not start a search.
C31_InfoToggleAndSearchKey ==
  /\ [][(Pressed(KeyChar("i")) /\ ~tui_state.detail_popup_visible) =>
          tui_state' = [tui_state EXCEPT
                          !.info_panel_visible = ~tui_state.info_panel_visible,
                          !.scroll_offset = 0,
                          !.selected_cmd_idx = 0]]_vars
  /\ [][(Pressed(KeyChar("/")) /\ tui_state.info_panel_visible) =>
          tui_state' = [tui_state EXCEPT !.search_active = TRUE,
                                         !.search_query = << >>]]_vars
  /\ [][(Pressed(KeyChar("/")) /\ ~tui_state.info_panel_visible) =>
          /\ tui_state'.search_active = tui_state.search_active
          /\ ~tui_state.search_active => tui_state' = tui_state]_vars

\* i has opened the info panel with the second newest log entry selected:
\* the log selection is kept and the command selection is 0
C31_Witness ==
  /\ tui_pc = "select" /\ key = KeyChar("i")
  /\ tui_state.info_panel_visible
  /\ ~tui_state.detail_popup_visible
  /\ tui_state.selected_log_idx = 1
  /\ tui_state.selected_cmd_idx = 0 /\ tui_state.scroll_offset = 0

\* C32: no thread holds _state_lock and _emulator_lock at the same time; the
\* thread that holds _emulator_lock is inside process_command and the thread
\* that holds _state_lock is inside a with _state_lock block, neither of
\* them waiting for a lock; and each lock that is held is released again,
\* whoever is waiting for it.
C32_LocksIndependent ==
  /\ [](\A t \in Threads : ~(t \in state_lock /\ t \in emulator_lock))
  /\ [](\A s \in Sessions :
          /\ s \in emulator_lock => pc[s] = "emu_inside"
          /\ s \in state_lock =>
               pc[s] \in {"log_read_commands", "log_write_commands",
                          "log_read_errors", "log_write_errors", "log_unlock",
                          "dereg_unlock"})
  /\ [](Acceptor \in state_lock =>
          acc_pc \in {"reg_read", "reg_write", "reg_unlock"})
  /\ (state_lock # {}) ~> (state_lock = {})
  /\ (emulator_lock # {}) ~> (emulator_lock = {})

\* a session that has left process_command waits for the registry lock, which
\* the accept loop holds while it registers the other client
C32_Witness ==
  \E s \in Sessions :
    /\ pc[s] = "log_lock"
    /\ state_lock = {Acceptor}
    /\ emulator_lock = {}

\* the place in call_order of the k-th call of session s
NthCall(s, k) ==
  CHOOSE i \in 1..Len(call_order) :
    /\ call_order[i] = s
    /\ Cardinality({j \in 1..i : call_order[j] = s}) = k

\* the call that entry n of the command log records: the k-th entry of a
\* client records the k-th call of its session (a call that raises is the
\* session's last)
EntryCall(n) ==
  LET cid == command_log[n].client_id
      s == CHOOSE t \in Sessions : client_id(t) = cid
      k == Cardinality({m \in 1..n : command_log[m].client_id = cid})
  IN  NthCall(s, k)

\* C33: the command log is in the order of the calls into the engine: of two
\* entries, the one whose call was made first (and so had completed before
\* the other call began, the calls being exclusive) comes first in the log.
C33_LogInCallOrder ==
  \A m, n \in 1..Len(command_log) :
    m < n => EntryCall(m) < EntryCall(n)

\* session 1 made its call first; session 2 made its call after that and
\* its entry is in the log while session 1 has not yet logged its own
C33_Witness ==
  /\ call_order = <<1, 2>>
  /\ pc[1] = "log_lock"
  /\ Len(command_log) = 1
  /\ command_log[1].client_id = client_id(2)

\* C34: the exchanges of one session are sequential.  When a session reads a
\* command, every earlier read of it has had its call and its log entry, and
\* every non-empty response returned to it has been written to its socket;
\* when a session appends an entry, the entry records the command of its
\* last read and is its entry number reads[s].
C34_SessionSequential ==
  /\ [][\A s \in Sessions :
          reads'[s] = reads[s] + 1 =>
            /\ Len(returned[s]) = reads[s]
            /\ appended[s] = reads[s]
            /\ sent[s] = NonEmpty(returned[s])]_vars
  /\ [][\A s \in Sessions :
          appended'[s] = appended[s] + 1 =>
            /\ appended'[s] = reads[s]
            /\ command_log' # << >>
            /\ command_log'[Len(command_log')].client_id = client_id(s)
            /\ command_log'[Len(command_log')].command = Strip(Decode(data[s]))]_vars

\* a session has read its second command: its first is logged and answered
C34_Witness ==
  \E s \in Sessions :
    /\ pc[s] = "emu_lock"
    /\ reads[s] = 2 /\ appended[s] = 1
    /\ returned[s] = << CmdOn >>
    /\ sent[s] = << CmdOn >>

\* C35: in every state of the console, an active search means the info
\* panel is visible, and no active search means the query is empty.
C35_SearchNeedsInfoPanel ==
  /\ tui_state.search_active => tui_state.info_panel_visible
  /\ ~tui_state.search_active => tui_state.search_query = << >>


\* the info panel was closed with the key i while a search was active: the
\* search is still active, query and all, with no info panel on screen
C35_Witness ==
  /\ tui_pc = "display"
  /\ tui_state.search_active
  /\ tui_state.search_query = KeyChar("m")
  /\ ~tui_state.info_panel_visible
  /\ ~tui_state.detail_popup_visible

\* the half of C35 that holds: no active search, no query
C35_QueryOnlyInSearch ==
  ~tui_state.search_active => tui_state.search_query = << >>


\* C36: whenever the detail popup is visible and the info panel is not, the
\* log selection is at least 0 and below the length of the command log, so
\* that the popup has an entry to show, whatever keys were pressed since the
\* popup opened.
C36_PopupHasLogEntry ==
  (tui_state.detail_popup_visible /\ ~tui_state.info_panel_visible) =>
     /\ tui_state.selected_log_idx >= 0
     /\ tui_state.selected_log_idx < Len(command_log)
     /\ render_detail_popup(tui_state, command_log) # << >>

\* the popup was opened on the newest entry and j was pressed: the popup is
\* still open, the selection is -1 and the popup is drawn empty
C36_Witness ==
  /\ tui_pc = "key"
  /\ tui_state.detail_popup_visible /\ ~tui_state.info_panel_visible
  /\ tui_state.selected_log_idx = -1
  /\ command_log # << >>
  /\ frame.detail = << << >> >>


\* C37: while the detail popup is open on a log entry, the entry on screen
\* is the entry that the next tick draws when no key is pressed: appends by
\* sessions between two ticks do not change what the popup shows.
C37_PopupEntryStable ==
  (/\ tui_pc = "key"
   /\ tui_state.detail_popup_visible /\ ~tui_state.info_panel_visible
   /\ frame.detail # << >>
   /\ frame.detail[1] # << >>) =>
     render_detail_popup(tui_state, command_log) = frame.detail[1]

\* the popup on screen shows the first entry of the log; a session has
\* appended a second entry since, and the next tick draws that one
C37_Witness ==
  /\ tui_pc = "key"
  /\ tui_state.detail_popup_visible /\ ~tui_state.info_panel_visible
  /\ tui_state.selected_log_idx = 0
  /\ Len(command_log) = 2
  /\ frame.detail = << << command_log[1] >> >>
  /\ render_detail_popup(tui_state, command_log) = << command_log[2] >>


\* the steps of session s
StepOf(s) == pc'[s] # pc[s]

\* C38: when process_command raises in a session, the step appends no entry,
\* changes no counter and writes nothing, and closes the session's socket; and
\* from then on the session reads nothing, has no call, appends nothing and
\* writes nothing, and none of its steps changes the log or a counter.  The
\* command that raised has no entry: the session has one entry less than it
\* has made reads.
C38_EngineRaiseEndsSession ==
  /\ [][\A s \in Sessions :
          (pc[s] = "emu_inside" /\ StepOf(s) /\ exit_why'[s] = "engine") =>
            /\ UNCHANGED <<command_log, stats, sent, reads, appended>>
            /\ ~sock_open'[s]
            /\ pc'[s] = "dereg_lock"]_vars
  /\ [][\A s \in Sessions :
          (exit_why[s] = "engine" /\ StepOf(s)) =>
            /\ UNCHANGED <<command_log, stats, sent, reads, appended, returned,
                           call_order>>
            /\ pc'[s] \in {"dereg_unlock", "done", "killed"}]_vars
  /\ [](\A s \in Sessions :
          exit_why[s] = "engine" =>
            /\ appended[s] = reads[s] - 1
            /\ Len(returned[s]) = reads[s] - 1
            /\ sent[s] = NonEmpty(returned[s])
            /\ ~sock_open[s])

\* the engine raised on a session's second command: the session has left
\* the registry with one entry, one response written and two reads
C38_Witness ==
  \E s \in Sessions :
    /\ exit_why[s] = "engine" /\ pc[s] = "dereg_unlock"
    /\ reads[s] = 2 /\ appended[s] = 1
    /\ sent[s] = << CmdOn >>
    /\ stats.commands = 1


\* C39: whenever no thread holds _state_lock, the command log has
\* min(_stats['commands'], 100) entries and _clients has at most
\* _stats['connections'] items.
C39_RegistryConsistentOutsideLock ==
  state_lock = {} =>
    /\ Len(command_log) = Min(stats.commands, LogMaxLen)
    /\ Len(clients) <= stats.connections

\* 101 commands have been processed and the log holds 100 entries, with a
\* client connected and the lock free
C39_Witness ==
  /\ state_lock = {}
  /\ stats.commands = LogMaxLen + 1
  /\ Len(command_log) = LogMaxLen
  /\ Len(clients) = 1 /\ stats.connections = 3


\* C40: in the normal layout, when the log selection is at least 0, the
\* command-log panel on screen has a marked row and that row is the selected
\* entry, the one at distance selected_log_idx from the newest.
C40_SelectedEntryRendered ==
  (/\ tui_pc = "key"
   /\ ~tui_state.detail_popup_visible /\ ~tui_state.info_panel_visible
   /\ tui_state.selected_log_idx >= 0
   /\ frame.commands # << >>) =>
     LET shown == frame.commands[1]
     IN  /\ shown.marked > 0
         /\ shown.rows[shown.marked] =
              command_log[Len(command_log) - tui_state.selected_log_idx]

\* the selection was moved up 16 times over a log of 16 entries: the oldest
\* entry is selected, the panel shows the 15 newest and marks none
C40_Witness ==
  /\ tui_pc = "key"
  /\ ~tui_state.detail_popup_visible /\ ~tui_state.info_panel_visible
  /\ tui_state.selected_log_idx = recent_rows
  /\ Len(command_log) > recent_rows
  /\ frame.commands # << >>
  /\ Len(frame.commands[1].rows) = recent_rows
  /\ frame.commands[1].marked = 0

=============================================================================
